---- MODULE Spec2Model ----
(***************************************************************************)
(* Roast package registry worker (src/src/index.ts).                       *)
(*                                                                         *)
(* The worker keeps its state in three key-value namespaces (PACKAGES,     *)
(* USERS, TOKENS) and one object bucket (TARBALLS).  Every request handler *)
(* is an async function: each `await` on a store call is a point where     *)
(* other requests run.  A request is modelled as a record in `reqs` whose  *)
(* `pc` names the next store call it is waiting for; each action below is  *)
(* the code of one handler from one await to the next.                     *)
(*                                                                         *)
(* Strings that the code parses (package names, version strings) are       *)
(* sequences of one-character strings, so that the regular expressions,    *)
(* split('.') and parseInt are computed as the code computes them.         *)
(*                                                                         *)
(* Conventions:                                                            *)
(*  - a KV get or put, and an R2 get or put, is one atomic step; a get     *)
(*    returns the value of the latest put;                                 *)
(*  - the step that receives a request is also the step of its first      *)
(*    store read;                                                          *)
(*  - the code between two awaits runs without interruption (one isolate,  *)
(*    one event loop), so it belongs to the step of the await before it;   *)
(*  - the stored JSON text of a record is the record; the records carry    *)
(*    the fields the handlers read or compute from;                        *)
(*  - new Date() reads the clock `now`, which only the step Tick advances; *)
(*    in a specification without Tick all requests fall in one millisecond;*)
(*  - a finished request keeps its inputs and its status in `reqs`, and    *)
(*    drops its local variables; `seen` and `wrote` are history: the       *)
(*    package record a request got from PACKAGES and the one it put;       *)
(*    `prior` is history too: what had already been answered 201 when the  *)
(*    request was received;                                                *)
(*  - a number is an IEEE 754 double, kept as its sign and the decimal     *)
(*    digits of its magnitude, so that parseInt rounds as the code does.   *)
(***************************************************************************)
EXTENDS Integers, Sequences, FiniteSets, TLC

VARIABLES
    PACKAGES,   \* KV namespace: "pkg:"+name -> PackageMetadata
    TARBALLS,   \* R2 bucket: name+"/"+version+".tar.gz" -> object
    USERS,      \* KV namespace: user id -> User
    TOKENS,     \* KV namespace: api token -> user id
    reqs,       \* the requests received so far, in order of arrival
    now,        \* the clock read by new Date(), in milliseconds
    call        \* the arguments and results of a function applied on its own

vars == <<PACKAGES, TARBALLS, USERS, TOKENS, reqs, now, call>>

Nil == "nil"        \* a header that is absent, an undefined string field
None == <<>>        \* null / undefined where a record is expected
Some(x) == <<x>>

(***************************************************************************)
(* Bounds                                                                  *)
(***************************************************************************)
MaxReqs == 2        \* requests of any kind received in Spec
MaxSimul == 2       \* publish requests issued simultaneously in SpecSimul
MaxPublishes == 3   \* publish requests received in SpecPublish
MaxVersionReqs == 3 \* requests received in SpecVersions
MaxVersionsInFlight == 2  \* requests of SpecVersions on their way at once
MaxLifecycleReqs == 3 \* requests received in SpecLifecycle
MaxClockReqs == 3   \* requests received in SpecClock
MaxClock == 1       \* last millisecond of SpecClock
MaxPageReqs == 3    \* requests received in SpecPages
MaxTwoReqs == 3     \* requests received in SpecTwoPackages
MaxFrameReqs == 3   \* requests received in SpecFrame
MaxFrameClock == 1  \* last millisecond of SpecFrame
MaxDownloadReqs == 2 \* requests received in SpecDownload
MaxRetryReqs == 3    \* requests received in SpecRetry
MaxDbCalls == 3      \* calls of db.ts functions in SpecDb
MaxDbClock == 1      \* last millisecond of SpecDb
MaxRegisterReqs == 3 \* requests received in SpecRegister

(***************************************************************************)
(* Characters                                                              *)
(***************************************************************************)
Digits == {"0", "1", "2", "3", "4", "5", "6", "7", "8", "9"}
Lower == {"a", "b", "c", "d", "e", "f", "g", "h", "i", "j", "k", "l", "m",
          "n", "o", "p", "q", "r", "s", "t", "u", "v", "w", "x", "y", "z"}
Upper == {"A", "B", "C", "D", "E", "F", "G", "H", "I", "J", "K", "L", "M",
          "N", "O", "P", "Q", "R", "S", "T", "U", "V", "W", "X", "Y", "Z"}
\* A character is a string of one ASCII character or, for the double quote,
\* the backslash, the grave accent and a character outside ASCII, the name
\* of its code point. The alphabet of the model is ASCII (tab, line
\* feed, form feed, carriage return and the printable characters) and the
\* code points of OtherChars: the white space of ECMAScript and letters whose
\* lower case is not an ASCII matter.
Ascii ==
    <<" ", "!", "U+0022", "#", "$", "%", "&", "'", "(", ")", "*", "+", ",", "-", ".", "/",
      "0", "1", "2", "3", "4", "5", "6", "7", "8", "9", ":", ";", "<", "=", ">", "?",
      "@", "A", "B", "C", "D", "E", "F", "G", "H", "I", "J", "K", "L", "M", "N", "O",
      "P", "Q", "R", "S", "T", "U", "V", "W", "X", "Y", "Z", "[", "U+005C", "]", "^", "_",
      "U+0060", "a", "b", "c", "d", "e", "f", "g", "h", "i", "j", "k", "l", "m", "n", "o",
      "p", "q", "r", "s", "t", "u", "v", "w", "x", "y", "z", "{", "|", "}", "~">>

\* the other characters, each with its code point
OtherChars ==
    << <<"\t", 9>>, <<"\n", 10>>, <<"U+000B", 11>>, <<"\f", 12>>, <<"\r", 13>>,
       <<"U+00A0", 160>>, <<"U+00C9", 201>>, <<"U+00E9", 233>>, <<"U+0130", 304>>,
       <<"U+0307", 775>>, <<"U+03A3", 931>>, <<"U+03C2", 962>>, <<"U+03C3", 963>>,
       <<"U+1680", 5760>>, <<"U+2000", 8192>>, <<"U+2001", 8193>>,
       <<"U+2002", 8194>>, <<"U+2003", 8195>>, <<"U+2004", 8196>>,
       <<"U+2005", 8197>>, <<"U+2006", 8198>>, <<"U+2007", 8199>>,
       <<"U+2008", 8200>>, <<"U+2009", 8201>>, <<"U+200A", 8202>>,
       <<"U+2028", 8232>>, <<"U+2029", 8233>>, <<"U+202F", 8239>>,
       <<"U+205F", 8287>>, <<"U+3000", 12288>>, <<"U+FEFF", 65279>> >>

\* the code point of a character; a string in UTF-8 sorts by its code points
CharCode(c) ==
    IF \E n \in 1..Len(Ascii) : Ascii[n] = c
    THEN 31 + (CHOOSE n \in 1..Len(Ascii) : Ascii[n] = c)
    ELSE OtherChars[CHOOSE n \in 1..Len(OtherChars) : OtherChars[n][1] = c][2]

\* WhiteSpace and LineTerminator of ECMAScript, which parseInt skips
Whitespace ==
    {" ", "\t", "\n", "\r", "\f", "U+000B", "U+00A0", "U+FEFF", "U+1680",
     "U+2000", "U+2001", "U+2002", "U+2003", "U+2004", "U+2005", "U+2006",
     "U+2007", "U+2008", "U+2009", "U+200A", "U+2028", "U+2029", "U+202F",
     "U+205F", "U+3000"}

DigitVal(c) ==
    CASE c = "0" -> 0 [] c = "1" -> 1 [] c = "2" -> 2 [] c = "3" -> 3
      [] c = "4" -> 4 [] c = "5" -> 5 [] c = "6" -> 6 [] c = "7" -> 7
      [] c = "8" -> 8 [] c = "9" -> 9

Max(a, b) == IF a >= b THEN a ELSE b

(***************************************************************************)
(* String.prototype.split(sep) for a one-character separator               *)
(***************************************************************************)
RECURSIVE SplitFrom(_, _, _, _)
SplitFrom(s, sep, i, cur) ==
    IF i > Len(s) THEN <<cur>>
    ELSE IF s[i] = sep THEN <<cur>> \o SplitFrom(s, sep, i + 1, <<>>)
    ELSE SplitFrom(s, sep, i + 1, Append(cur, s[i]))

Split(s, sep) == SplitFrom(s, sep, 1, <<>>)

(***************************************************************************)
(* Numbers. A JavaScript number that holds an integer, an infinity or NaN   *)
(* is a record: mag is the magnitude as its decimal digits, most           *)
(* significant first and without leading zeros (0 is <<>>); the arithmetic *)
(* is exact on the digits and rounded to the 53 bits of an IEEE double.    *)
(***************************************************************************)
NaN == [nan |-> TRUE, inf |-> FALSE, neg |-> FALSE, mag |-> <<>>]
Num(neg, mag) == [nan |-> FALSE, inf |-> FALSE, neg |-> neg, mag |-> mag]
Infinity(neg) == [nan |-> FALSE, inf |-> TRUE, neg |-> neg, mag |-> <<>>]
Zero == Num(FALSE, <<>>)

\* the digits without their leading zeros
StripZeros(ds) ==
    IF \A i \in 1..Len(ds) : ds[i] = 0 THEN <<>>
    ELSE LET first == CHOOSE i \in 1..Len(ds) :
                          ds[i] /= 0 /\ \A j \in 1..(i - 1) : ds[j] = 0
         IN  SubSeq(ds, first, Len(ds))

\* the digits with zeros in front, up to length n
PadTo(a, n) == [i \in 1..(n - Len(a)) |-> 0] \o a

\* -1, 0 or 1 as the magnitude a is below, equal to or above b
CmpMag(a, b) ==
    IF Len(a) /= Len(b) THEN (IF Len(a) < Len(b) THEN -1 ELSE 1)
    ELSE IF a = b THEN 0
    ELSE LET i == CHOOSE k \in 1..Len(a) :
                      a[k] /= b[k] /\ \A j \in 1..(k - 1) : a[j] = b[j]
         IN  IF a[i] < b[i] THEN -1 ELSE 1

\* a + b: position i takes a carry when a position to its right overflows
\* and every position between the two holds a 9
AddMag(a, b) ==
    LET n == Max(Len(a), Len(b))
        x == PadTo(a, n)
        y == PadTo(b, n)
        carry(i) == \E j \in (i + 1)..n :
                        /\ x[j] + y[j] >= 10
                        /\ \A m \in (i + 1)..(j - 1) : x[m] + y[m] = 9
    IN  (IF carry(0) THEN <<1>> ELSE <<>>)
            \o [i \in 1..n |-> (x[i] + y[i] + (IF carry(i) THEN 1 ELSE 0)) % 10]

\* a - b for a >= b: position i lends when a position to its right is short
\* and every position between the two is level
SubMag(a, b) ==
    LET n == Len(a)
        y == PadTo(b, n)
        borrow(i) == \E j \in (i + 1)..n :
                         /\ a[j] < y[j]
                         /\ \A m \in (i + 1)..(j - 1) : a[m] = y[m]
    IN  StripZeros(<<>> \o [i \in 1..n |->
                       (a[i] - y[i] - (IF borrow(i) THEN 1 ELSE 0) + 10) % 10])

\* a divided by two: a digit takes ten from an odd digit on its left
HalfMag(a) ==
    StripZeros(<<>> \o [i \in 1..Len(a) |->
                   (10 * (IF i = 1 THEN 0 ELSE a[i - 1] % 2) + a[i]) \div 2])

\* a times two: a digit takes a carry from a digit of five or more on its right
DoubleMag(a) ==
    (IF a /= <<>> /\ a[1] >= 5 THEN <<1>> ELSE <<>>)
        \o [i \in 1..Len(a) |->
               ((2 * a[i]) % 10) + (IF i < Len(a) /\ a[i + 1] >= 5 THEN 1 ELSE 0)]

OddMag(a) == a /= <<>> /\ a[Len(a)] % 2 = 1

\* eight halvings and eight doublings at once
Half8(a) == HalfMag(HalfMag(HalfMag(HalfMag(HalfMag(HalfMag(HalfMag(HalfMag(a))))))))
Double8(a) ==
    DoubleMag(DoubleMag(DoubleMag(DoubleMag(DoubleMag(DoubleMag(DoubleMag(DoubleMag(a))))))))

RECURSIVE TimesPowerOfTwo(_, _)
TimesPowerOfTwo(a, k) ==
    IF k = 0 \/ a = <<>> THEN a
    ELSE IF k >= 8 THEN TimesPowerOfTwo(Double8(a), k - 8)
    ELSE TimesPowerOfTwo(DoubleMag(a), k - 1)

MantissaBits == 53
MaxExponent == 971   \* the largest double is (2^53 - 1) * 2^971
TwoTo53 == TimesPowerOfTwo(<<1>>, MantissaBits)

\* halve until the magnitude fits 53 bits; round is the last bit dropped,
\* sticky tells whether a bit dropped before it was set. A magnitude of 20
\* digits is above 2^62 and is halved eight times at once: every bit this
\* drops is before the last one.
RECURSIVE Shrink(_, _, _, _)
Shrink(n, k, round, sticky) ==
    IF Len(n) < 16 \/ CmpMag(n, TwoTo53) < 0
    THEN [n |-> n, k |-> k, round |-> round, sticky |-> sticky]
    ELSE IF Len(n) >= 20
    THEN IF k >= 0 /\ (sticky \/ round \/ Double8(Half8(n)) /= n)
         THEN Shrink(Half8(n), k + 8, FALSE, TRUE)
         ELSE Shrink(Half8(n), k + 8, FALSE, FALSE)
    ELSE IF k >= 0 /\ (sticky \/ round)
         THEN Shrink(HalfMag(n), k + 1, OddMag(n), TRUE)
         ELSE Shrink(HalfMag(n), k + 1, OddMag(n), FALSE)

\* the double nearest to the integer of magnitude mag, ties to even
RoundToDouble(neg, mag) ==
    LET s == Shrink(mag, 0, FALSE, FALSE)
        up == s.round /\ (s.sticky \/ OddMag(s.n))
        q == IF up THEN AddMag(s.n, <<1>>) ELSE s.n
    IN  IF s.k > MaxExponent \/ (s.k = MaxExponent /\ q = TwoTo53)
        THEN Infinity(neg)
        ELSE Num(neg, TimesPowerOfTwo(q, s.k))

\* x - y for numbers that are not NaN and not the same infinity
Minus(x, y) ==
    IF x.inf THEN Infinity(x.neg)
    ELSE IF y.inf THEN Infinity(~y.neg)
    ELSE IF x.neg /= y.neg THEN RoundToDouble(x.neg, AddMag(x.mag, y.mag))
    ELSE IF CmpMag(x.mag, y.mag) >= 0
         THEN RoundToDouble(x.neg, SubMag(x.mag, y.mag))
         ELSE RoundToDouble(~x.neg, SubMag(y.mag, x.mag))

\* x === y for numbers that are not NaN: -0 equals 0
SameNumber(x, y) ==
    /\ x.inf = y.inf /\ x.mag = y.mag
    /\ x.neg = y.neg \/ (x.mag = <<>> /\ ~x.inf)

\* -1, 0 or 1 as the number is negative, zero or positive
Sign(x) ==
    IF x.mag = <<>> /\ ~x.inf THEN 0 ELSE IF x.neg THEN -1 ELSE 1

(***************************************************************************)
(* parseInt(p, 10): skips leading white space, reads an optional sign and  *)
(* the longest run of decimal digits; NaN when there is no digit.          *)
(***************************************************************************)
RECURSIVE SkipWhitespace(_)
SkipWhitespace(s) ==
    IF s /= <<>> /\ Head(s) \in Whitespace THEN SkipWhitespace(Tail(s)) ELSE s

\* the longest run of digits at the front of s
LeadingDigits(s) ==
    IF \A i \in 1..Len(s) : s[i] \in Digits THEN s
    ELSE LET stop == CHOOSE i \in 1..Len(s) :
                         s[i] \notin Digits /\ \A j \in 1..(i - 1) : s[j] \in Digits
         IN  SubSeq(s, 1, stop - 1)

\* the magnitude that a run of digit characters denotes
MagOf(ds) == StripZeros([i \in 1..Len(ds) |-> DigitVal(ds[i])])

\* the number that a run of digit characters denotes, as a double
DecimalValue(ds) == RoundToDouble(FALSE, MagOf(ds))

parseInt(p) ==
    LET t == SkipWhitespace(p)
        neg == t /= <<>> /\ Head(t) = "-"
        u == IF t /= <<>> /\ Head(t) \in {"-", "+"} THEN Tail(t) ELSE t
        ds == LeadingDigits(u)
    IN  IF ds = <<>> THEN NaN
        ELSE [DecimalValue(ds) EXCEPT !.neg = neg]

\* parseInt(p, 10) || 0
PartValue(p) ==
    LET n == parseInt(p) IN IF n.nan \/ Sign(n) = 0 THEN Zero ELSE n

VersionParts(v) == LET ps == Split(v, ".") IN [i \in 1..Len(ps) |-> PartValue(ps[i])]

\* partsA[i] || 0
PartAt(parts, i) == IF i <= Len(parts) THEN parts[i] ELSE Zero

RECURSIVE CompareFrom(_, _, _)
CompareFrom(partsA, partsB, i) ==
    IF i > Max(Len(partsA), Len(partsB)) THEN Zero
    ELSE IF ~SameNumber(PartAt(partsA, i), PartAt(partsB, i))
         THEN Minus(PartAt(partsA, i), PartAt(partsB, i))
         ELSE CompareFrom(partsA, partsB, i + 1)

compareVersions(a, b) == CompareFrom(VersionParts(a), VersionParts(b), 1)

(***************************************************************************)
(* The two validation regular expressions of handlePublishPackage          *)
(***************************************************************************)
\* /^[a-z][a-z0-9_-]*$/
ValidName(s) ==
    /\ Len(s) >= 1
    /\ s[1] \in Lower
    /\ \A i \in 2..Len(s) : s[i] \in Lower \cup Digits \cup {"_", "-"}

AllDigits(s) == Len(s) >= 1 /\ \A i \in 1..Len(s) : s[i] \in Digits

IndexOf(s, c) ==
    IF \E i \in 1..Len(s) : s[i] = c
    THEN CHOOSE i \in 1..Len(s) : s[i] = c /\ \A j \in 1..(i - 1) : s[j] /= c
    ELSE 0

\* /^\d+\.\d+\.\d+(-[a-zA-Z0-9.]+)?$/
ValidVersion(s) ==
    LET d == IndexOf(s, "-")
        core == IF d = 0 THEN s ELSE SubSeq(s, 1, d - 1)
        pre == IF d = 0 THEN <<>> ELSE SubSeq(s, d + 1, Len(s))
        cs == Split(core, ".")
    IN  /\ Len(cs) = 3
        /\ \A i \in 1..3 : AllDigits(cs[i])
        /\ d /= 0 => /\ Len(pre) >= 1
                     /\ \A i \in 1..Len(pre) :
                            pre[i] \in Lower \cup Upper \cup Digits \cup {"."}

(***************************************************************************)
(* Store keys and derived strings                                          *)
(***************************************************************************)
\* one key for every package
PkgKey_shared(name) == <<"pkg:">>

PkgKey(name) == <<"pkg:">> \o name
TarballKey(name, version) == name \o <<"/">> \o version \o <<".tar.gz">>
DownloadUrl(name, version) ==
    <<"/api/v1/packages/">> \o name \o <<"/">> \o version \o <<"/download">>

Has(store, key) == key \in DOMAIN store
Put(store, key, value) == (key :> value) @@ store

\* hashData: the SHA-256 digest is kept symbolic, a function of the bytes
hashData(data) == <<"sha256">> \o data

\* new Date().toISOString() for a clock value below one second
DigitChar(n) ==
    CASE n = 0 -> "0" [] n = 1 -> "1" [] n = 2 -> "2" [] n = 3 -> "3"
      [] n = 4 -> "4" [] n = 5 -> "5" [] n = 6 -> "6" [] n = 7 -> "7"
      [] n = 8 -> "8" [] n = 9 -> "9"

toISOString(t) ==
    <<"1970-01-01T00:00:00.", DigitChar(t \div 100), DigitChar((t \div 10) % 10),
      DigitChar(t % 10), "Z">>

(***************************************************************************)
(* Version lists                                                           *)
(***************************************************************************)
\* metadata.versions.some(v => v.version === version)
HasVersion(versions, version) ==
    \E k \in 1..Len(versions) : versions[k].version = version

\* index of metadata.versions.find(v => v.version === version), 0 if none
FindVersion(versions, version) ==
    IF HasVersion(versions, version)
    THEN CHOOSE k \in 1..Len(versions) :
            /\ versions[k].version = version
            /\ \A j \in 1..(k - 1) : versions[j].version /= version
    ELSE 0

\* the comparator with its arguments the other way round
SortCompare_ascending(a, b) == compareVersions(a.version, b.version)

\* the comparator handed to sort: (a, b) => compareVersions(b.version, a.version)
SortCompare(a, b) == compareVersions(b.version, a.version)

\* Array.prototype.sort is stable: x goes after every element that does not
\* compare greater than it
RECURSIVE InsertSorted(_, _)
InsertSorted(sorted, x) ==
    IF sorted = <<>> THEN <<x>>
    ELSE IF Sign(SortCompare(Head(sorted), x)) <= 0
         THEN <<Head(sorted)>> \o InsertSorted(Tail(sorted), x)
         ELSE <<x>> \o sorted

RECURSIVE SortVersions(_)
SortVersions(versions) ==
    IF versions = <<>> THEN <<>>
    ELSE InsertSorted(SortVersions(SubSeq(versions, 1, Len(versions) - 1)),
                      versions[Len(versions)])

(***************************************************************************)
(* Identities                                                              *)
(***************************************************************************)
ADMIN_TOKEN == "admin-secret"
TokAlice == "tok-alice"
TokBob == "tok-bob"
TokBogus == "tok-bogus"

AdminUser == [id |-> "admin", name |-> "Admin", packages |-> <<>>]

\* verifyToken up to the answer of TOKENS.get: null for an empty or unknown
\* token, the admin identity without a store read, else the user id to look up
verifyToken(token) ==
    IF token = "" THEN [done |-> TRUE, user |-> None, userId |-> Nil]
    ELSE IF token = ADMIN_TOKEN
    THEN [done |-> TRUE, user |-> Some(AdminUser), userId |-> Nil]
    ELSE IF ~Has(TOKENS, token) THEN [done |-> TRUE, user |-> None, userId |-> Nil]
    ELSE [done |-> FALSE, user |-> None, userId |-> TOKENS[token]]

\* verifyToken from the answer of USERS.get: null or the User stored
verifyToken_getUser(userId) ==
    IF ~Has(USERS, userId) THEN None ELSE Some(USERS[userId])

\* user.packages.includes(name)
Includes(packages, name) == \E k \in 1..Len(packages) : packages[k] = name

\* the ownership test left out
MayModify_unchecked(user, name) == TRUE

\* the ownership test of handleYankVersion
MayModify(user, name) == user.id = "admin" \/ Includes(user.packages, name)

(***************************************************************************)
(* Requests                                                                *)
(***************************************************************************)
Request(kind, token, name, version, body, description, yank) ==
    [kind |-> kind, token |-> token, name |-> name, version |-> version,
     body |-> body, description |-> description,
     signature |-> None, fingerprint |-> None, yank |-> yank,
     pc |-> "received", status |-> 0,
     user |-> None, metadata |-> None, result |-> None, prior |-> FALSE,
     seen |-> None, wrote |-> None, query |-> <<>>, keys |-> <<>>,
     failed |-> Nil, email |-> <<>>, userId |-> Nil]

\* the status of a request whose handler threw: fetch returns the handler's
\* promise without awaiting it, so the catch of fetch is not entered, the
\* promise of fetch rejects with the error and no response is built
NoResponse == -1

Respond(r, status) ==
    [r EXCEPT !.pc = "done", !.status = status,
              !.user = None, !.metadata = None]

\* a publish of (name, version) has already returned 201
Published(name, version) ==
    \E k \in 1..Len(reqs) :
        /\ reqs[k].kind = "publish" /\ reqs[k].status = 201
        /\ reqs[k].name = name /\ reqs[k].version = version

\* a publish with this token has created the package `name` (it found no
\* record of it) and has already returned 201
Created(token, name) ==
    \E k \in 1..Len(reqs) :
        /\ reqs[k].kind = "publish" /\ reqs[k].status = 201
        /\ reqs[k].seen = None
        /\ reqs[k].token = token /\ reqs[k].name = name

\* empty package and tarball stores; two users registered, each with a token
Init ==
    /\ PACKAGES = <<>>
    /\ TARBALLS = <<>>
    /\ USERS = ("u-alice" :> [id |-> "u-alice", name |-> "Alice", packages |-> <<>>])
            @@ ("u-bob" :> [id |-> "u-bob", name |-> "Bob", packages |-> <<>>])
    /\ TOKENS = (TokAlice :> "u-alice") @@ (TokBob :> "u-bob")
    /\ reqs = <<>>
    /\ now = 0
    /\ call = None

(***************************************************************************)
(* handlePublishPackage                                                    *)
(***************************************************************************)
NewPackage(name, description, user) ==
    [name |-> name, description |-> description, authors |-> <<user.name>>,
     license |-> "MIT", keywords |-> <<>>, versions |-> <<>>,
     created_at |-> toISOString(now), updated_at |-> toISOString(now),
     downloads |-> 0]

\* header || undefined, for a header that is None when absent: an absent
\* header and an empty one are both left out of the record
OrUndefined(header) == IF header = Some(<<>>) THEN None ELSE header

NewVersion(r) ==
    [version |-> r.version, published_at |-> toISOString(now),
     yanked |-> FALSE, checksum |-> hashData(r.body),
     size |-> Len(r.body), signature |-> OrUndefined(r.signature),
     publisher_fingerprint |-> OrUndefined(r.fingerprint), download_url |-> <<>>]

\* the checks with the version grammar left out
PublishRejection_anyVersion(r, user) ==
    IF r.token = Nil THEN 401
    ELSE IF user = None THEN 401
    ELSE IF r.body = <<>> THEN 400
    ELSE IF r.name = <<>> \/ r.version = <<>> THEN 400
    ELSE IF ~ValidName(r.name) THEN 400
    ELSE 0

\* the status of the checks made before the first store access, 0 if all pass
PublishRejection(r, user) ==
    IF r.token = Nil THEN 401
    ELSE IF user = None THEN 401
    ELSE IF r.body = <<>> THEN 400
    ELSE IF r.name = <<>> \/ r.version = <<>> THEN 400
    ELSE IF ~ValidName(r.name) THEN 400
    ELSE IF ~ValidVersion(r.version) THEN 400
    ELSE 0

\* from the user that verifyToken returns to the checksum: the body and
\* header validation
handlePublishPackage_checked(r, user) ==
    LET rej == PublishRejection(r, user)
    IN  IF rej /= 0 THEN Respond(r, rej)
        ELSE [r EXCEPT !.pc = "read", !.user = user, !.userId = Nil]

\* entry to the answer of TOKENS.get; the admin token needs no store read
\* and goes on to the checksum
handlePublishPackage_validate(token, name, version, body, description, signature, fingerprint) ==
    LET r == [Request("publish", token, name, version, body, description, FALSE)
                 EXCEPT !.prior = Published(name, version),
                        !.signature = signature, !.fingerprint = fingerprint]
        v == verifyToken(token)
    IN  /\ reqs' = Append(reqs,
                     IF token = Nil THEN Respond(r, 401)
                     ELSE IF v.done THEN handlePublishPackage_checked(r, v.user)
                     ELSE [r EXCEPT !.pc = "auth", !.userId = v.userId])
        /\ UNCHANGED <<PACKAGES, TARBALLS, USERS, TOKENS, now, call>>

\* USERS.get of verifyToken, then the body and header validation
handlePublishPackage_getUser(i) ==
    LET r == reqs[i]
    IN  /\ r.kind = "publish" /\ r.pc = "auth"
        /\ reqs' = [reqs EXCEPT ![i] =
                      handlePublishPackage_checked(r, verifyToken_getUser(r.userId))]
        /\ UNCHANGED <<PACKAGES, TARBALLS, USERS, TOKENS, now, call>>

\* metadata.versions.push(newVersion), the sort and updated_at
AppendVersion(existing, r) ==
    [existing EXCEPT !.versions = SortVersions(Append(existing.versions, NewVersion(r))),
                     !.updated_at = toISOString(now)]

\* PACKAGES.get, the duplicate check, push and sort
handlePublishPackage_getMetadata(i) ==
    LET r == reqs[i]
        key == PkgKey(r.name)
        existing == IF Has(PACKAGES, key) THEN PACKAGES[key]
                    ELSE NewPackage(r.name, r.description, r.user[1])
        metadata == AppendVersion(existing, r)
    IN  /\ r.kind = "publish" /\ r.pc = "read"
        /\ reqs' = [reqs EXCEPT ![i] =
                      IF Has(PACKAGES, key) /\ HasVersion(PACKAGES[key].versions, r.version)
                      THEN Respond(r, 409)
                      ELSE [r EXCEPT !.pc = "blob", !.metadata = Some(metadata),
                              !.seen = IF Has(PACKAGES, key) THEN Some(PACKAGES[key])
                                       ELSE None]]
        /\ UNCHANGED <<PACKAGES, TARBALLS, USERS, TOKENS, now, call>>

\* the request goes on to PACKAGES.put without the object written
handlePublishPackage_putTarball_skipped(i) ==
    LET r == reqs[i]
    IN  /\ r.kind = "publish" /\ r.pc = "blob"
        /\ reqs' = [reqs EXCEPT ![i].pc = "commit"]
        /\ UNCHANGED <<PACKAGES, TARBALLS, USERS, TOKENS, now, call>>

\* TARBALLS.put
handlePublishPackage_putTarball(i) ==
    LET r == reqs[i]
    IN  /\ r.kind = "publish" /\ r.pc = "blob"
        /\ TARBALLS' = Put(TARBALLS, TarballKey(r.name, r.version),
                           [body |-> r.body, checksum |-> hashData(r.body),
                            publisher |-> r.user[1].id])
        /\ reqs' = [reqs EXCEPT ![i].pc = "commit"]
        /\ UNCHANGED <<PACKAGES, USERS, TOKENS, now, call>>

\* PACKAGES.put, then the response when the publisher already lists the package
handlePublishPackage_putMetadata(i) ==
    LET r == reqs[i]
    IN  /\ r.kind = "publish" /\ r.pc = "commit"
        /\ PACKAGES' = Put(PACKAGES, PkgKey(r.name), r.metadata[1])
        /\ reqs' = [reqs EXCEPT ![i] =
                      IF Includes(r.user[1].packages, r.name)
                      THEN [Respond(r, 201) EXCEPT !.wrote = r.metadata]
                      ELSE [r EXCEPT !.pc = "grant", !.wrote = r.metadata]]
        /\ UNCHANGED <<TARBALLS, USERS, TOKENS, now, call>>

\* USERS.put of the user with the package pushed on its list, then the response
handlePublishPackage_putUser(i) ==
    LET r == reqs[i]
        user == r.user[1]
    IN  /\ r.kind = "publish" /\ r.pc = "grant"
        /\ USERS' = Put(USERS, user.id,
                        [user EXCEPT !.packages = Append(user.packages, r.name)])
        /\ reqs' = [reqs EXCEPT ![i] = Respond(r, 201)]
        /\ UNCHANGED <<PACKAGES, TARBALLS, TOKENS, now, call>>

\* a put of handlePublishPackage throws: TARBALLS.put, PACKAGES.put or
\* USERS.put; the handler's promise rejects and the request ends without a
\* response; `failed` records the write that threw
handlePublishPackage_putFails(i) ==
    LET r == reqs[i]
    IN  /\ r.kind = "publish" /\ r.pc \in {"blob", "commit", "grant"}
        /\ reqs' = [reqs EXCEPT ![i] = [Respond(r, NoResponse) EXCEPT !.failed = r.pc]]
        /\ UNCHANGED <<PACKAGES, TARBALLS, USERS, TOKENS, now, call>>

(***************************************************************************)
(* handleGetPackage                                                        *)
(***************************************************************************)
WithDownloadUrls(name, versions) ==
    [k \in 1..Len(versions) |->
        [versions[k] EXCEPT !.download_url = DownloadUrl(name, versions[k].version)]]

\* a missing package gets a record of its own, to count the download
handleGetPackage_upsert(name) ==
    LET r == Request("get", Nil, name, <<>>, <<>>, <<>>, FALSE)
        key == PkgKey(name)
        found == IF Has(PACKAGES, key) THEN PACKAGES[key]
                 ELSE NewPackage(name, <<>>, [name |-> Nil])
        metadata == [found EXCEPT !.versions = WithDownloadUrls(name, found.versions)]
    IN  /\ reqs' = Append(reqs,
                     [r EXCEPT !.pc = "counter", !.status = 200,
                               !.metadata = Some([metadata EXCEPT
                                   !.downloads = metadata.downloads + 1])])
        /\ UNCHANGED <<PACKAGES, TARBALLS, USERS, TOKENS, now, call>>

\* PACKAGES.get and the response; the counter write is issued, not awaited
handleGetPackage(name) ==
    LET r == Request("get", Nil, name, <<>>, <<>>, <<>>, FALSE)
        key == PkgKey(name)
        metadata == [PACKAGES[key] EXCEPT
                        !.versions = WithDownloadUrls(name, PACKAGES[key].versions)]
    IN  /\ reqs' = Append(reqs,
                     IF ~Has(PACKAGES, key) THEN Respond(r, 404)
                     ELSE [r EXCEPT !.pc = "counter", !.status = 200,
                             !.metadata = Some([metadata EXCEPT
                                 !.downloads = metadata.downloads + 1])])
        /\ UNCHANGED <<PACKAGES, TARBALLS, USERS, TOKENS, now, call>>

\* the PACKAGES.put of the counter reaches the store
handleGetPackage_putCounter(i) ==
    LET r == reqs[i]
    IN  /\ r.kind = "get" /\ r.pc = "counter"
        /\ PACKAGES' = Put(PACKAGES, PkgKey(r.name), r.metadata[1])
        /\ reqs' = [reqs EXCEPT ![i] = [Respond(r, 200) EXCEPT !.wrote = r.metadata]]
        /\ UNCHANGED <<TARBALLS, USERS, TOKENS, now, call>>

\* the un-awaited put is cancelled when the response has been sent
handleGetPackage_putCancelled(i) ==
    LET r == reqs[i]
    IN  /\ r.kind = "get" /\ r.pc = "counter"
        /\ reqs' = [reqs EXCEPT ![i] = Respond(r, 200)]
        /\ UNCHANGED <<PACKAGES, TARBALLS, USERS, TOKENS, now, call>>

(***************************************************************************)
(* handleYankVersion                                                       *)
(***************************************************************************)
\* the flag is inverted instead of set
SetYanked_toggle(metadata, k, yank) ==
    [metadata EXCEPT !.versions[k].yanked = ~metadata.versions[k].yanked,
                     !.updated_at = toISOString(now)]

\* the yank parameter is ignored: the flag is always raised
SetYanked_always(metadata, k, yank) ==
    [metadata EXCEPT !.versions[k].yanked = TRUE,
                     !.updated_at = toISOString(now)]

\* versionInfo.yanked = yank; metadata.updated_at = new Date().toISOString()
SetYanked(metadata, k, yank) ==
    [metadata EXCEPT !.versions[k].yanked = yank,
                     !.updated_at = toISOString(now)]

\* from the user that verifyToken returns to PACKAGES.get
handleYankVersion_checked(r, user) ==
    IF user = None THEN Respond(r, 401)
    ELSE [r EXCEPT !.pc = "read", !.user = user, !.userId = Nil]

\* entry to the answer of TOKENS.get; the admin token needs no store read
handleYankVersion_verify(token, name, version, yank) ==
    LET r == [Request("yank", token, name, version, <<>>, <<>>, yank)
                 EXCEPT !.prior = Created(token, name)]
        v == verifyToken(token)
    IN  /\ reqs' = Append(reqs,
                     IF token = Nil THEN Respond(r, 401)
                     ELSE IF v.done THEN handleYankVersion_checked(r, v.user)
                     ELSE [r EXCEPT !.pc = "auth", !.userId = v.userId])
        /\ UNCHANGED <<PACKAGES, TARBALLS, USERS, TOKENS, now, call>>

\* USERS.get of verifyToken
handleYankVersion_getUser(i) ==
    LET r == reqs[i]
    IN  /\ r.kind = "yank" /\ r.pc = "auth"
        /\ reqs' = [reqs EXCEPT ![i] =
                      handleYankVersion_checked(r, verifyToken_getUser(r.userId))]
        /\ UNCHANGED <<PACKAGES, TARBALLS, USERS, TOKENS, now, call>>

\* the ownership check made before the lookups
YankRejection_ownerFirst(r) ==
    LET key == PkgKey(r.name)
    IN  IF ~MayModify(r.user[1], r.name) THEN 403
        ELSE IF ~Has(PACKAGES, key) THEN 404
        ELSE IF FindVersion(PACKAGES[key].versions, r.version) = 0 THEN 404
        ELSE 0

\* the status of the checks on the record read, 0 if all pass
YankRejection(r) ==
    LET key == PkgKey(r.name)
    IN  IF ~Has(PACKAGES, key) THEN 404
        ELSE IF FindVersion(PACKAGES[key].versions, r.version) = 0 THEN 404
        ELSE IF ~MayModify(r.user[1], r.name) THEN 403
        ELSE 0

\* PACKAGES.get, the lookups, the ownership check and the change of the flag
handleYankVersion_getMetadata(i) ==
    LET r == reqs[i]
        key == PkgKey(r.name)
        k == FindVersion(PACKAGES[key].versions, r.version)
        rej == YankRejection(r)
    IN  /\ r.kind = "yank" /\ r.pc = "read"
        /\ reqs' = [reqs EXCEPT ![i] =
                      IF rej /= 0 THEN Respond(r, rej)
                      ELSE [r EXCEPT !.pc = "commit",
                              !.seen = Some(PACKAGES[key]),
                              !.metadata = Some(SetYanked(PACKAGES[key], k, r.yank))]]
        /\ UNCHANGED <<PACKAGES, TARBALLS, USERS, TOKENS, now, call>>

\* PACKAGES.put and the response
handleYankVersion_putMetadata(i) ==
    LET r == reqs[i]
    IN  /\ r.kind = "yank" /\ r.pc = "commit"
        /\ PACKAGES' = Put(PACKAGES, PkgKey(r.name), r.metadata[1])
        /\ reqs' = [reqs EXCEPT ![i] = [Respond(r, 200) EXCEPT !.wrote = r.metadata]]
        /\ UNCHANGED <<TARBALLS, USERS, TOKENS, now, call>>

(***************************************************************************)
(* handleDownloadPackage                                                   *)
(***************************************************************************)
\* a yanked version is answered like a missing one
DownloadRejection_hidden(name, version) ==
    LET key == PkgKey(name)
        k == FindVersion(PACKAGES[key].versions, version)
    IN  IF ~Has(PACKAGES, key) THEN 404
        ELSE IF k = 0 THEN 404
        ELSE IF PACKAGES[key].versions[k].yanked THEN 404
        ELSE 0

\* the status of the checks on the package record, 0 if all pass
DownloadRejection(name, version) ==
    LET key == PkgKey(name)
        k == FindVersion(PACKAGES[key].versions, version)
    IN  IF ~Has(PACKAGES, key) THEN 404
        ELSE IF k = 0 THEN 404
        ELSE IF PACKAGES[key].versions[k].yanked THEN 410
        ELSE 0

\* the body of the object is read without the null check
handleDownloadPackage_getTarball_unchecked(i) ==
    LET r == reqs[i]
        key == TarballKey(r.name, r.version)
    IN  /\ r.kind = "download" /\ r.pc = "blob"
        /\ reqs' = [reqs EXCEPT ![i] =
                      IF ~Has(TARBALLS, key)
                      THEN [Respond(r, NoResponse) EXCEPT !.result = None]
                      ELSE [Respond(r, 200) EXCEPT
                              !.result[1].body = TARBALLS[key].body]]
        /\ UNCHANGED <<PACKAGES, TARBALLS, USERS, TOKENS, now, call>>

\* PACKAGES.get and the version checks
handleDownloadPackage(name, version) ==
    LET r == Request("download", Nil, name, version, <<>>, <<>>, FALSE)
        key == PkgKey(name)
        k == FindVersion(PACKAGES[key].versions, version)
        rej == DownloadRejection(name, version)
    IN  /\ reqs' = Append(reqs,
                     IF rej /= 0 THEN Respond(r, rej)
                     ELSE [r EXCEPT !.pc = "blob",
                             !.result = Some([checksum |->
                                 PACKAGES[key].versions[k].checksum, body |-> <<>>])])
        /\ UNCHANGED <<PACKAGES, TARBALLS, USERS, TOKENS, now, call>>

\* TARBALLS.get and the response with the X-Checksum-SHA256 header
handleDownloadPackage_getTarball(i) ==
    LET r == reqs[i]
        key == TarballKey(r.name, r.version)
    IN  /\ r.kind = "download" /\ r.pc = "blob"
        /\ reqs' = [reqs EXCEPT ![i] =
                      IF ~Has(TARBALLS, key)
                      THEN [Respond(r, 404) EXCEPT !.result = None]
                      ELSE [Respond(r, 200) EXCEPT
                              !.result[1].body = TARBALLS[key].body]]
        /\ UNCHANGED <<PACKAGES, TARBALLS, USERS, TOKENS, now, call>>

(***************************************************************************)
(* handleRegisterUser. crypto.randomUUID() gives the k-th request the user *)
(* id <<"id", k>> and the token <<"tok", k>>, values that no other request *)
(* gets.                                                                   *)
(***************************************************************************)
EmailKey(email) == <<"email:">> \o email

RegisterRejection(email, name) ==
    IF email = <<>> \/ name = <<>> THEN 400
    ELSE IF Has(USERS, EmailKey(email)) THEN 409
    ELSE 0

\* the body checks and USERS.get of the email key
handleRegisterUser_getEmail(email, name) ==
    LET r == [Request("register", Nil, name, <<>>, <<>>, <<>>, FALSE)
                 EXCEPT !.email = email]
        rej == RegisterRejection(email, name)
        k == Len(reqs) + 1
    IN  /\ reqs' = Append(reqs,
                     IF rej /= 0 THEN Respond(r, rej)
                     ELSE [r EXCEPT !.pc = "user",
                             !.user = Some([id |-> <<"id", k>>, email |-> email,
                                            name |-> name,
                                            created_at |-> toISOString(now),
                                            packages |-> <<>>]),
                             !.result = Some([user_id |-> <<"id", k>>,
                                              api_token |-> <<"tok", k>>])])
        /\ UNCHANGED <<PACKAGES, TARBALLS, USERS, TOKENS, now, call>>

\* USERS.put of the user under its id
handleRegisterUser_putUser(i) ==
    LET r == reqs[i]
    IN  /\ r.kind = "register" /\ r.pc = "user"
        /\ USERS' = Put(USERS, r.user[1].id, r.user[1])
        /\ reqs' = [reqs EXCEPT ![i].pc = "email"]
        /\ UNCHANGED <<PACKAGES, TARBALLS, TOKENS, now, call>>

\* USERS.put of the user id under the email key
handleRegisterUser_putEmail(i) ==
    LET r == reqs[i]
    IN  /\ r.kind = "register" /\ r.pc = "email"
        /\ USERS' = Put(USERS, EmailKey(r.email), r.user[1].id)
        /\ reqs' = [reqs EXCEPT ![i].pc = "token"]
        /\ UNCHANGED <<PACKAGES, TARBALLS, TOKENS, now, call>>

\* TOKENS.put and the response with user_id and api_token
handleRegisterUser_putToken(i) ==
    LET r == reqs[i]
    IN  /\ r.kind = "register" /\ r.pc = "token"
        /\ TOKENS' = Put(TOKENS, r.result[1].api_token, r.user[1].id)
        /\ reqs' = [reqs EXCEPT ![i] = [r EXCEPT !.pc = "done", !.status = 201]]
        /\ UNCHANGED <<PACKAGES, TARBALLS, USERS, now, call>>

(***************************************************************************)
(* The package list and the web pages                                      *)
(***************************************************************************)
UpperSeq == <<"A", "B", "C", "D", "E", "F", "G", "H", "I", "J", "K", "L", "M",
              "N", "O", "P", "Q", "R", "S", "T", "U", "V", "W", "X", "Y", "Z">>
LowerSeq == <<"a", "b", "c", "d", "e", "f", "g", "h", "i", "j", "k", "l", "m",
              "n", "o", "p", "q", "r", "s", "t", "u", "v", "w", "x", "y", "z">>

\* LOWER of SQLite: the 26 letters of ASCII, nothing else
AsciiLower(s) ==
    [i \in 1..Len(s) |->
        IF s[i] \in Upper
        THEN LowerSeq[CHOOSE n \in 1..26 : UpperSeq[n] = s[i]]
        ELSE s[i]]

\* the characters of the alphabet that Unicode calls cased and case-ignorable
Cased == Upper \cup Lower \cup {"U+00C9", "U+00E9", "U+0130", "U+03A3", "U+03C2", "U+03C3"}
CaseIgnorable == {"'", ".", ":", "^", "U+0060", "U+0307", "U+FEFF"}

\* the condition Final_Sigma of Unicode at position i: a cased letter before,
\* none after, case-ignorable characters skipped
FinalSigma(s, i) ==
    /\ \E j \in 1..(i - 1) :
           s[j] \in Cased /\ \A m \in (j + 1)..(i - 1) : s[m] \in CaseIgnorable
    /\ ~\E j \in (i + 1)..Len(s) :
           s[j] \in Cased /\ \A m \in (i + 1)..(j - 1) : s[m] \in CaseIgnorable

\* the lower case of the character at position i, one or two characters
LowerAt(s, i) ==
    IF s[i] \in Upper THEN <<LowerSeq[CHOOSE n \in 1..26 : UpperSeq[n] = s[i]]>>
    ELSE IF s[i] = "U+00C9" THEN <<"U+00E9">>
    ELSE IF s[i] = "U+0130" THEN <<"i", "U+0307">>
    ELSE IF s[i] = "U+03A3"
         THEN (IF FinalSigma(s, i) THEN <<"U+03C2">> ELSE <<"U+03C3">>)
    ELSE <<s[i]>>

RECURSIVE LowerFrom(_, _)
LowerFrom(s, i) == IF i > Len(s) THEN <<>> ELSE LowerAt(s, i) \o LowerFrom(s, i + 1)

\* String.prototype.toLowerCase
toLowerCase(s) == LowerFrom(s, 1)

\* String.prototype.includes
StringIncludes(s, q) ==
    \E i \in 0..(Len(s) - Len(q)) : SubSeq(s, i + 1, i + Len(q)) = q

\* index of metadata.versions.find(v => !v.yanked), 0 if none
FindNotYanked(versions) ==
    IF \E k \in 1..Len(versions) : ~versions[k].yanked
    THEN CHOOSE k \in 1..Len(versions) :
            /\ ~versions[k].yanked
            /\ \A j \in 1..(k - 1) : versions[j].yanked
    ELSE 0

TextNone == <<"n", "o", "n", "e">>
TextLatest == <<"l", "a", "t", "e", "s", "t">>

\* latestVersion?.version || 'none'
LatestListed(metadata) ==
    LET k == FindNotYanked(metadata.versions)
    IN  IF k = 0 THEN TextNone
        ELSE IF metadata.versions[k].version = <<>> THEN TextNone
        ELSE metadata.versions[k].version

\* s before t in the order of the code points
RECURSIVE CodeLess(_, _)
CodeLess(s, t) ==
    IF t = <<>> THEN FALSE
    ELSE IF s = <<>> THEN TRUE
    ELSE IF Head(s) = Head(t) THEN CodeLess(Tail(s), Tail(t))
    ELSE CharCode(Head(s)) < CharCode(Head(t))

\* the keys of a set in the order of a list: a key is the prefix and the
\* characters after it
RECURSIVE InKeyOrder(_)
InKeyOrder(keys) ==
    IF keys = {} THEN <<>>
    ELSE LET first == CHOOSE k \in keys :
                          \A other \in keys \ {k} : CodeLess(Tail(k), Tail(other))
         IN  <<first>> \o InKeyOrder(keys \ {first})

\* the keys of PACKAGES.list({ prefix: 'pkg:' }): every stored key that
\* starts with the prefix, in key order
ListKeys ==
    InKeyOrder({ key \in DOMAIN PACKAGES : key /= <<>> /\ Head(key) = "pkg:" })

\* the accumulators of the three listing loops
ListStart(kind, query) ==
    LET r == [Request(kind, Nil, <<>>, <<>>, <<>>, <<>>, FALSE) EXCEPT
                 !.query = query, !.keys = ListKeys,
                 !.result = Some([packages |-> <<>>, totalDownloads |-> 0,
                                  totalVersions |-> 0])]
    IN  IF ListKeys = <<>> THEN Respond(r, 200) ELSE [r EXCEPT !.pc = "each"]

\* the end of one turn of a listing loop: the response after the last key
ListTurn(r, result) ==
    LET t == [r EXCEPT !.keys = Tail(r.keys), !.result = Some(result)]
    IN  IF Tail(r.keys) = <<>> THEN Respond(t, 200) ELSE t

\* handleListPackages: PACKAGES.list
handleListPackages_list ==
    /\ reqs' = Append(reqs, ListStart("list", <<>>))
    /\ UNCHANGED <<PACKAGES, TARBALLS, USERS, TOKENS, now, call>>

\* handleListPackages: PACKAGES.get of the next key and the entry pushed
handleListPackages_get(i) ==
    LET r == reqs[i]
        key == Head(r.keys)
        metadata == PACKAGES[key]
        entry == [name |-> metadata.name, description |-> metadata.description,
                  latest |-> LatestListed(metadata)]
    IN  /\ r.kind = "list" /\ r.pc = "each"
        /\ reqs' = [reqs EXCEPT ![i] =
                      IF ~Has(PACKAGES, key) THEN ListTurn(r, r.result[1])
                      ELSE ListTurn(r, [r.result[1] EXCEPT
                                          !.packages = Append(@, entry)])]
        /\ UNCHANGED <<PACKAGES, TARBALLS, USERS, TOKENS, now, call>>

\* GET /: PACKAGES.list
fetch_homePage_list ==
    /\ reqs' = Append(reqs, ListStart("home", <<>>))
    /\ UNCHANGED <<PACKAGES, TARBALLS, USERS, TOKENS, now, call>>

\* GET /: PACKAGES.get of the next key, the totals and the entry pushed
fetch_homePage_get(i) ==
    LET r == reqs[i]
        key == Head(r.keys)
        metadata == PACKAGES[key]
        entry == [name |-> metadata.name, description |-> metadata.description,
                  latest |-> LatestListed(metadata),
                  downloads |-> metadata.downloads,
                  updated_at |-> metadata.updated_at]
    IN  /\ r.kind = "home" /\ r.pc = "each"
        /\ reqs' = [reqs EXCEPT ![i] =
                      IF ~Has(PACKAGES, key) THEN ListTurn(r, r.result[1])
                      ELSE ListTurn(r, [r.result[1] EXCEPT
                              !.packages = Append(@, entry),
                              !.totalDownloads = @ + metadata.downloads,
                              !.totalVersions = @ + Len(metadata.versions)])]
        /\ UNCHANGED <<PACKAGES, TARBALLS, USERS, TOKENS, now, call>>

\* GET /search: PACKAGES.list
fetch_searchPage_list(query) ==
    /\ reqs' = Append(reqs, ListStart("search", query))
    /\ UNCHANGED <<PACKAGES, TARBALLS, USERS, TOKENS, now, call>>

\* the filter of the search loop
SearchMatches(metadata, queryLower) ==
    \/ StringIncludes(toLowerCase(metadata.name), queryLower)
    \/ StringIncludes(toLowerCase(metadata.description), queryLower)
    \/ \E n \in 1..Len(metadata.keywords) :
          StringIncludes(toLowerCase(metadata.keywords[n]), queryLower)

\* GET /search: PACKAGES.get of the next key and the entry pushed on a match
fetch_searchPage_get(i) ==
    LET r == reqs[i]
        key == Head(r.keys)
        metadata == PACKAGES[key]
        entry == [name |-> metadata.name, description |-> metadata.description,
                  latest |-> LatestListed(metadata),
                  downloads |-> metadata.downloads]
    IN  /\ r.kind = "search" /\ r.pc = "each"
        /\ reqs' = [reqs EXCEPT ![i] =
                      IF ~Has(PACKAGES, key) THEN ListTurn(r, r.result[1])
                      ELSE IF ~SearchMatches(metadata, toLowerCase(r.query))
                           THEN ListTurn(r, r.result[1])
                      ELSE ListTurn(r, [r.result[1] EXCEPT
                                          !.packages = Append(@, entry)])]
        /\ UNCHANGED <<PACKAGES, TARBALLS, USERS, TOKENS, now, call>>

\* handleSearchPackages: PACKAGES.list
handleSearchPackages_list(query) ==
    /\ reqs' = Append(reqs, ListStart("apisearch", query))
    /\ UNCHANGED <<PACKAGES, TARBALLS, USERS, TOKENS, now, call>>

\* handleSearchPackages: PACKAGES.get of the next key, the record pushed on a
\* match
handleSearchPackages_get(i) ==
    LET r == reqs[i]
        key == Head(r.keys)
        metadata == PACKAGES[key]
    IN  /\ r.kind = "apisearch" /\ r.pc = "each"
        /\ reqs' = [reqs EXCEPT ![i] =
                      IF ~Has(PACKAGES, key) THEN ListTurn(r, r.result[1])
                      ELSE IF ~SearchMatches(metadata, toLowerCase(r.query))
                           THEN ListTurn(r, r.result[1])
                      ELSE ListTurn(r, [r.result[1] EXCEPT
                                          !.packages = Append(@, metadata)])]
        /\ UNCHANGED <<PACKAGES, TARBALLS, USERS, TOKENS, now, call>>

\* templates.ts packagePage: the version of the install command,
\* (pkg.versions.find(v => !v.yanked) || pkg.versions[0])?.version || 'latest'
packagePage(pkg) ==
    LET k == FindNotYanked(pkg.versions)
        latestVersion == IF k /= 0 THEN Some(pkg.versions[k])
                         ELSE IF pkg.versions /= <<>> THEN Some(pkg.versions[1])
                         ELSE None
    IN  [name |-> pkg.name,
         latest |-> IF latestVersion = None THEN TextLatest
                    ELSE IF latestVersion[1].version = <<>> THEN TextLatest
                    ELSE latestVersion[1].version]

\* GET /packages/:name: PACKAGES.get and the page
fetch_packagePage(name) ==
    LET r == Request("page", Nil, name, <<>>, <<>>, <<>>, FALSE)
        key == PkgKey(name)
    IN  /\ reqs' = Append(reqs,
                     IF ~Has(PACKAGES, key) THEN Respond(r, 404)
                     ELSE [Respond(r, 200) EXCEPT
                             !.result = Some(packagePage(PACKAGES[key]))])
        /\ UNCHANGED <<PACKAGES, TARBALLS, USERS, TOKENS, now, call>>

(***************************************************************************)
(* db.ts: searchPackages on the packages table                             *)
(***************************************************************************)
\* two characters are equal up to the case of an ASCII letter
SameLetter(c, d) ==
    c = d \/ \E n \in 1..26 : {c, d} = {UpperSeq[n], LowerSeq[n]}

\* the SQL operator LIKE: % stands for any text, _ for any one character,
\* letters match whatever their case
RECURSIVE Like(_, _)
Like(text, pattern) ==
    IF pattern = <<>> THEN text = <<>>
    ELSE IF Head(pattern) = "%"
         THEN Like(text, Tail(pattern)) \/ (text /= <<>> /\ Like(Tail(text), pattern))
    ELSE IF text = <<>> THEN FALSE
    ELSE /\ Head(pattern) = "_" \/ SameLetter(Head(pattern), Head(text))
         /\ Like(Tail(text), Tail(pattern))

\* ORDER BY downloads DESC
RECURSIVE OrderByDownloads(_)
OrderByDownloads(rows) ==
    IF rows = <<>> THEN <<>>
    ELSE LET top == CHOOSE k \in 1..Len(rows) :
                        /\ \A j \in 1..Len(rows) : rows[j].downloads <= rows[k].downloads
                        /\ \A j \in 1..(k - 1) : rows[j].downloads < rows[k].downloads
         IN  <<rows[top]>> \o OrderByDownloads(
                 SubSeq(rows, 1, top - 1) \o SubSeq(rows, top + 1, Len(rows)))

\* searchPackages(db, query) on a packages table
searchPackages(rows, query) ==
    LET searchTerm == <<"%">> \o toLowerCase(query) \o <<"%">>
        selected(row) == \/ Like(AsciiLower(row.name), searchTerm)
                         \/ Like(AsciiLower(row.description), searchTerm)
                         \/ Like(AsciiLower(row.keywords), searchTerm)
    IN  OrderByDownloads(SelectSeq(rows, selected))

(***************************************************************************)
(* db.ts: the statements on the packages and versions tables. A table of   *)
(* packages is a function from the primary key name to the row; a table of *)
(* versions is the sequence of its rows in the order of their ids. A       *)
(* nullable column holds None or Some(text).                               *)
(***************************************************************************)
\* the columns that updatePackage puts in the SET clause
UpdatableColumns ==
    {"description", "authors", "license", "repository", "homepage", "keywords",
     "downloads", "updated_at"}

\* UPDATE without the WHERE clause
updatePackage_everyRow(packages, name, updates) ==
    LET fields == UpdatableColumns \cap DOMAIN updates
    IN  [n \in DOMAIN packages |->
            [c \in DOMAIN packages[n] |->
                IF c \in fields THEN updates[c] ELSE packages[n][c]]]

\* createPackage(db, pkg): the row that INSERT INTO packages adds has the
\* columns of pkg and downloads 0; the insert fails on PRIMARY KEY (name)
\* and db.execute throws
createPackage(packages, pkg) ==
    IF pkg.name \in DOMAIN packages
    THEN [ok |-> FALSE, packages |-> packages]
    ELSE [ok |-> TRUE,
          packages |-> (pkg.name :> [c \in DOMAIN pkg \cup {"downloads"} |->
                                        IF c = "downloads" THEN 0 ELSE pkg[c]])
                       @@ packages]

\* updatePackage(db, name, updates): the table after the call
updatePackage(packages, name, updates) ==
    LET fields == UpdatableColumns \cap DOMAIN updates
    IN  IF fields = {} THEN packages
        ELSE [n \in DOMAIN packages |->
                IF n = name
                THEN [c \in DOMAIN packages[n] |->
                        IF c \in fields THEN updates[c] ELSE packages[n][c]]
                ELSE packages[n]]

\* the counter is set to one
incrementDownloads_one(packages, name) ==
    [n \in DOMAIN packages |->
        IF n = name THEN [packages[n] EXCEPT !.downloads = 1] ELSE packages[n]]

\* incrementDownloads(db, name): UPDATE packages SET downloads = downloads + 1
incrementDownloads(packages, name) ==
    [n \in DOMAIN packages |->
        IF n = name THEN [packages[n] EXCEPT !.downloads = @ + 1] ELSE packages[n]]

\* the row that INSERT INTO versions adds, with the next id
InsertedVersion(versions, version) ==
    [id |-> Len(versions) + 1, package_name |-> version.package_name,
     version |-> version.version, published_at |-> version.published_at,
     yanked |-> version.yanked, checksum |-> version.checksum,
     size |-> version.size, signature |-> version.signature,
     publisher_fingerprint |-> version.publisher_fingerprint]

\* the insert on a table without UNIQUE(package_name, version)
createVersion_unconstrained(versions, version) ==
    [ok |-> TRUE, versions |-> Append(versions, InsertedVersion(versions, version))]

\* createVersion(db, version): the insert fails on UNIQUE(package_name,
\* version) and db.execute throws
createVersion(versions, version) ==
    IF \E k \in 1..Len(versions) :
           /\ versions[k].package_name = version.package_name
           /\ versions[k].version = version.version
    THEN [ok |-> FALSE, versions |-> versions]
    ELSE [ok |-> TRUE, versions |-> Append(versions, InsertedVersion(versions, version))]

\* setVersionYanked(db, packageName, version, yanked): UPDATE versions SET
\* yanked = ? WHERE package_name = ? AND version = ?, with yanked ? 1 : 0
setVersionYanked(versions, packageName, version, yanked) ==
    [k \in 1..Len(versions) |->
        IF versions[k].package_name = packageName /\ versions[k].version = version
        THEN [versions[k] EXCEPT !.yanked = IF yanked THEN 1 ELSE 0]
        ELSE versions[k]]

\* text comparison of two timestamps of toISOString
CharRank(c) == IF c \in Digits THEN DigitVal(c) ELSE 10

RECURSIVE TextLessEq(_, _)
TextLessEq(s, t) ==
    IF s = <<>> THEN TRUE
    ELSE IF t = <<>> THEN FALSE
    ELSE IF Head(s) = Head(t) THEN TextLessEq(Tail(s), Tail(t))
    ELSE CharRank(Head(s)) < CharRank(Head(t))

\* getPackageVersions(db, packageName): the results that SELECT ... ORDER BY
\* published_at DESC can return; rows of equal published_at come in any order
getPackageVersions(versions, packageName) ==
    LET ids == { k \in 1..Len(versions) : versions[k].package_name = packageName }
        n == Cardinality(ids)
    IN  { [i \in 1..n |-> versions[order[i]]] :
            order \in { f \in [1..n -> ids] :
                          /\ \A i, j \in 1..n : i /= j => f[i] /= f[j]
                          /\ \A i \in 1..(n - 1) :
                                TextLessEq(versions[f[i + 1]].published_at,
                                           versions[f[i]].published_at) } }

(***************************************************************************)
(* Request inputs                                                          *)
(***************************************************************************)
NameA == <<"a">>
NameB == <<"b">>
NameBad == <<"A">>                                      \* fails the name pattern
V1_2_0 == <<"1", ".", "2", ".", "0">>
V1_10_0 == <<"1", ".", "1", "0", ".", "0">>
V1_2_0_rc == <<"1", ".", "2", ".", "0", "-", "r", "c">>
V1_2_0_rc_1 == <<"1", ".", "2", ".", "0", "-", "r", "c", ".", "1">>
V1_2_0_rc_2 == <<"1", ".", "2", ".", "0", "-", "r", "c", ".", "2">>
V2_0_0 == <<"2", ".", "0", ".", "0">>
VBad == <<"1", ".", "2">>                               \* fails the version pattern
\* patch numbers 2^53 and 2^53 + 1, the first integers that share a double
V1_0_2p53 == <<"1", ".", "0", ".", "9", "0", "0", "7", "1", "9", "9", "2", "5", "4",
               "7", "4", "0", "9", "9", "2">>
V1_0_2p53_1 == <<"1", ".", "0", ".", "9", "0", "0", "7", "1", "9", "9", "2", "5", "4",
                 "7", "4", "0", "9", "9", "3">>
Body1 == <<7>>
Body2 == <<8, 9>>
Desc1 == <<"d">>
Desc2 == <<"e">>

PublishInput(token, name, version, body) ==
    [token |-> token, name |-> name, version |-> version, body |-> body,
     description |-> Desc1, signature |-> None, fingerprint |-> None]

YankInput(token, name, version, yank) ==
    [token |-> token, name |-> name, version |-> version, yank |-> yank]

\* one publish for each way of being rejected before the first store access
RejectedPublishes ==
    { PublishInput(Nil, NameA, V1_2_0, Body1),
      PublishInput(TokBogus, NameA, V1_2_0, Body1),
      PublishInput(TokAlice, NameA, V1_2_0, <<>>),
      PublishInput(TokAlice, <<>>, V1_2_0, Body1),
      PublishInput(TokAlice, NameBad, V1_2_0, Body1),
      PublishInput(TokAlice, NameA, VBad, Body1) }

PublishInputs ==
    { PublishInput(t, NameA, v, b) :
        t \in {TokAlice, TokBob}, v \in {V1_2_0, V1_10_0}, b \in {Body1, Body2} }
    \cup { PublishInput(ADMIN_TOKEN, NameA, V1_2_0, Body1) }
    \cup RejectedPublishes

YankInputs ==
    { YankInput(t, NameA, V1_2_0, y) :
        t \in {TokAlice, TokBob, ADMIN_TOKEN}, y \in BOOLEAN }
    \cup { YankInput(TokBogus, NameA, V1_2_0, TRUE),
           YankInput(TokAlice, NameA, V1_10_0, TRUE) }

GetInputs == {NameA}

DownloadInputs == {<<NameA, V1_2_0>>}

(***************************************************************************)
(* Spec: requests of every kind, received at any time                      *)
(***************************************************************************)
Next ==
    \/ \E in \in PublishInputs :
        /\ Len(reqs) < MaxReqs
        /\ handlePublishPackage_validate(in.token, in.name, in.version,
                                          in.body, in.description,
                                          in.signature, in.fingerprint)
    \/ \E in \in YankInputs :
        /\ Len(reqs) < MaxReqs
        /\ handleYankVersion_verify(in.token, in.name, in.version, in.yank)
    \/ \E name \in GetInputs :
        /\ Len(reqs) < MaxReqs
        /\ handleGetPackage(name)
    \/ \E in \in DownloadInputs :
        /\ Len(reqs) < MaxReqs
        /\ handleDownloadPackage(in[1], in[2])
    \/ \E i \in DOMAIN reqs : handlePublishPackage_getUser(i)
    \/ \E i \in DOMAIN reqs : handlePublishPackage_getMetadata(i)
    \/ \E i \in DOMAIN reqs : handlePublishPackage_putTarball(i)
    \/ \E i \in DOMAIN reqs : handlePublishPackage_putMetadata(i)
    \/ \E i \in DOMAIN reqs : handlePublishPackage_putUser(i)
    \/ \E i \in DOMAIN reqs : handleGetPackage_putCounter(i)
    \/ \E i \in DOMAIN reqs : handleGetPackage_putCancelled(i)
    \/ \E i \in DOMAIN reqs : handleYankVersion_getUser(i)
    \/ \E i \in DOMAIN reqs : handleYankVersion_getMetadata(i)
    \/ \E i \in DOMAIN reqs : handleYankVersion_putMetadata(i)
    \/ \E i \in DOMAIN reqs : handleDownloadPackage_getTarball(i)

Spec == Init /\ [][Next]_vars


(***************************************************************************)
(* SpecSimul: publish requests that are issued simultaneously.  A request  *)
(* is received only while every earlier one has not yet read the package   *)
(* record, so any two requests of a behaviour overlap.                     *)
(***************************************************************************)
ValidPublishes ==
    { PublishInput(t, NameA, v, b) :
        t \in {TokAlice, TokBob}, v \in {V1_2_0, V1_10_0}, b \in {Body1, Body2} }

NextSimul ==
    \/ \E in \in ValidPublishes :
        /\ Len(reqs) < MaxSimul
        /\ \A k \in DOMAIN reqs : reqs[k].pc \in {"auth", "read"}
        /\ handlePublishPackage_validate(in.token, in.name, in.version,
                                          in.body, in.description,
                                          in.signature, in.fingerprint)
    \/ \E i \in DOMAIN reqs : handlePublishPackage_getUser(i)
    \/ \E i \in DOMAIN reqs : handlePublishPackage_getMetadata(i)
    \/ \E i \in DOMAIN reqs : handlePublishPackage_putTarball(i)
    \/ \E i \in DOMAIN reqs : handlePublishPackage_putMetadata(i)
    \/ \E i \in DOMAIN reqs : handlePublishPackage_putUser(i)

SpecSimul == Init /\ [][NextSimul]_vars

(***************************************************************************)
(* SpecPublish: publish requests only, received at any time                *)
(***************************************************************************)
SuccessivePublishes ==
    { PublishInput(TokAlice, NameA, V1_2_0, Body1),
      PublishInput(TokAlice, NameA, V1_10_0, Body1),
      PublishInput(TokBob, NameA, V1_2_0, Body2),
      PublishInput(TokBob, NameA, V1_10_0, Body2) }

\* the headers X-Package-Signature and X-Publisher-Fingerprint: both absent,
\* or one with a value and the other empty
Sig1 == <<"s">>
Fp1 == <<"f">>
SignatureHeaders ==
    { [signature |-> None, fingerprint |-> None],
      [signature |-> Some(Sig1), fingerprint |-> Some(<<>>)],
      [signature |-> Some(<<>>), fingerprint |-> Some(Fp1)] }

NextPublish ==
    \/ \E in \in SuccessivePublishes, h \in SignatureHeaders :
        /\ Len(reqs) < MaxPublishes
        /\ handlePublishPackage_validate(in.token, in.name, in.version,
                                          in.body, in.description,
                                          h.signature, h.fingerprint)
    \/ \E i \in DOMAIN reqs : handlePublishPackage_getUser(i)
    \/ \E i \in DOMAIN reqs : handlePublishPackage_getMetadata(i)
    \/ \E i \in DOMAIN reqs : handlePublishPackage_putTarball(i)
    \/ \E i \in DOMAIN reqs : handlePublishPackage_putMetadata(i)
    \/ \E i \in DOMAIN reqs : handlePublishPackage_putUser(i)

SpecPublish == Init /\ [][NextPublish]_vars

(***************************************************************************)
(* SpecVersions: one publisher, version strings that differ in a           *)
(* pre-release suffix or in the width of a component, with get-package and *)
(* yank requests on the same package                                       *)
(***************************************************************************)
\* the number of requests that have not taken their last step
InFlight == Cardinality({ k \in DOMAIN reqs : reqs[k].pc /= "done" })

VersionPublishes ==
    { PublishInput(TokAlice, NameA, v, Body1) :
        v \in {V1_2_0, V1_10_0, V1_2_0_rc_1} }

NextVersions ==
    \/ \E in \in VersionPublishes :
        /\ Len(reqs) < MaxVersionReqs /\ InFlight < MaxVersionsInFlight
        /\ handlePublishPackage_validate(in.token, in.name, in.version,
                                          in.body, in.description,
                                          in.signature, in.fingerprint)
    \/ /\ Len(reqs) < MaxVersionReqs /\ InFlight < MaxVersionsInFlight
       /\ handleYankVersion_verify(TokAlice, NameA, V1_2_0, TRUE)
    \/ /\ Len(reqs) < MaxVersionReqs /\ InFlight < MaxVersionsInFlight
       /\ handleGetPackage(NameA)
    \/ \E i \in DOMAIN reqs : handlePublishPackage_getUser(i)
    \/ \E i \in DOMAIN reqs : handlePublishPackage_getMetadata(i)
    \/ \E i \in DOMAIN reqs : handlePublishPackage_putTarball(i)
    \/ \E i \in DOMAIN reqs : handlePublishPackage_putMetadata(i)
    \/ \E i \in DOMAIN reqs : handlePublishPackage_putUser(i)
    \/ \E i \in DOMAIN reqs : handleGetPackage_putCounter(i)
    \/ \E i \in DOMAIN reqs : handleGetPackage_putCancelled(i)
    \/ \E i \in DOMAIN reqs : handleYankVersion_getUser(i)
    \/ \E i \in DOMAIN reqs : handleYankVersion_getMetadata(i)
    \/ \E i \in DOMAIN reqs : handleYankVersion_putMetadata(i)

SpecVersions == Init /\ [][NextVersions]_vars

(***************************************************************************)
(* SpecLifecycle: one version of one package, published by its owner, with *)
(* yank, unyank, get-package and download requests received at any time    *)
(***************************************************************************)
LifecycleYanks == { YankInput(TokAlice, NameA, V1_2_0, y) : y \in BOOLEAN }

NextLifecycle ==
    \/ /\ Len(reqs) < MaxLifecycleReqs
       /\ handlePublishPackage_validate(TokAlice, NameA, V1_2_0, Body1, Desc1, None, None)
    \/ \E in \in LifecycleYanks :
        /\ Len(reqs) < MaxLifecycleReqs
        /\ handleYankVersion_verify(in.token, in.name, in.version, in.yank)
    \/ /\ Len(reqs) < MaxLifecycleReqs
       /\ handleGetPackage(NameA)
    \/ /\ Len(reqs) < MaxLifecycleReqs
       /\ handleDownloadPackage(NameA, V1_2_0)
    \/ \E i \in DOMAIN reqs : handlePublishPackage_getUser(i)
    \/ \E i \in DOMAIN reqs : handlePublishPackage_getMetadata(i)
    \/ \E i \in DOMAIN reqs : handlePublishPackage_putTarball(i)
    \/ \E i \in DOMAIN reqs : handlePublishPackage_putMetadata(i)
    \/ \E i \in DOMAIN reqs : handlePublishPackage_putUser(i)
    \/ \E i \in DOMAIN reqs : handleGetPackage_putCounter(i)
    \/ \E i \in DOMAIN reqs : handleGetPackage_putCancelled(i)
    \/ \E i \in DOMAIN reqs : handleYankVersion_getUser(i)
    \/ \E i \in DOMAIN reqs : handleYankVersion_getMetadata(i)
    \/ \E i \in DOMAIN reqs : handleYankVersion_putMetadata(i)
    \/ \E i \in DOMAIN reqs : handleDownloadPackage_getTarball(i)

SpecLifecycle == Init /\ [][NextLifecycle]_vars

(***************************************************************************)
(* SpecPages: one version of one package, its yank and unyank, and the     *)
(* package list, the home page, the search page and the package page       *)
(***************************************************************************)
SearchQueries == { <<>>, <<"A">>, <<"D">>, <<"z">> }

NextPages ==
    \/ /\ Len(reqs) < MaxPageReqs
       /\ handlePublishPackage_validate(TokAlice, NameA, V1_2_0, Body1, Desc1, None, None)
    \/ \E in \in LifecycleYanks :
        /\ Len(reqs) < MaxPageReqs
        /\ handleYankVersion_verify(in.token, in.name, in.version, in.yank)
    \/ /\ Len(reqs) < MaxPageReqs
       /\ handleListPackages_list
    \/ /\ Len(reqs) < MaxPageReqs
       /\ fetch_homePage_list
    \/ \E query \in SearchQueries :
        /\ Len(reqs) < MaxPageReqs
        /\ fetch_searchPage_list(query)
    \/ /\ Len(reqs) < MaxPageReqs
       /\ fetch_packagePage(NameA)
    \/ \E query \in SearchQueries :
        /\ Len(reqs) < MaxPageReqs
        /\ handleSearchPackages_list(query)
    \/ \E i \in DOMAIN reqs : handlePublishPackage_getUser(i)
    \/ \E i \in DOMAIN reqs : handlePublishPackage_getMetadata(i)
    \/ \E i \in DOMAIN reqs : handlePublishPackage_putTarball(i)
    \/ \E i \in DOMAIN reqs : handlePublishPackage_putMetadata(i)
    \/ \E i \in DOMAIN reqs : handlePublishPackage_putUser(i)
    \/ \E i \in DOMAIN reqs : handleYankVersion_getUser(i)
    \/ \E i \in DOMAIN reqs : handleYankVersion_getMetadata(i)
    \/ \E i \in DOMAIN reqs : handleYankVersion_putMetadata(i)
    \/ \E i \in DOMAIN reqs : handleListPackages_get(i)
    \/ \E i \in DOMAIN reqs : fetch_homePage_get(i)
    \/ \E i \in DOMAIN reqs : fetch_searchPage_get(i)
    \/ \E i \in DOMAIN reqs : handleSearchPackages_get(i)

SpecPages == Init /\ [][NextPages]_vars

(***************************************************************************)
(* SpecClock: the requests of SpecLifecycle less the download, with time   *)
(* passing between their steps                                             *)
(***************************************************************************)
\* one millisecond passes
Tick ==
    /\ now < MaxClock
    /\ now' = now + 1
    /\ UNCHANGED <<PACKAGES, TARBALLS, USERS, TOKENS, reqs, call>>

NextClock ==
    \/ Tick
    \/ /\ Len(reqs) < MaxClockReqs
       /\ handlePublishPackage_validate(TokAlice, NameA, V1_2_0, Body1, Desc1, None, None)
    \/ \E in \in LifecycleYanks :
        /\ Len(reqs) < MaxClockReqs
        /\ handleYankVersion_verify(in.token, in.name, in.version, in.yank)
    \/ /\ Len(reqs) < MaxClockReqs
       /\ handleGetPackage(NameA)
    \/ \E i \in DOMAIN reqs : handlePublishPackage_getUser(i)
    \/ \E i \in DOMAIN reqs : handlePublishPackage_getMetadata(i)
    \/ \E i \in DOMAIN reqs : handlePublishPackage_putTarball(i)
    \/ \E i \in DOMAIN reqs : handlePublishPackage_putMetadata(i)
    \/ \E i \in DOMAIN reqs : handlePublishPackage_putUser(i)
    \/ \E i \in DOMAIN reqs : handleGetPackage_putCounter(i)
    \/ \E i \in DOMAIN reqs : handleGetPackage_putCancelled(i)
    \/ \E i \in DOMAIN reqs : handleYankVersion_getUser(i)
    \/ \E i \in DOMAIN reqs : handleYankVersion_getMetadata(i)
    \/ \E i \in DOMAIN reqs : handleYankVersion_putMetadata(i)

SpecClock == Init /\ [][NextClock]_vars

(***************************************************************************)
(* SpecTwoPackages: one publisher and two package names, with publish,     *)
(* yank and get-package requests on either                                 *)
(***************************************************************************)
TwoNames == {NameA, NameB}

NextTwoPackages ==
    \/ \E name \in TwoNames :
        /\ Len(reqs) < MaxTwoReqs
        /\ handlePublishPackage_validate(TokAlice, name, V1_2_0, Body1, Desc1,
                                          None, None)
    \/ \E name \in TwoNames :
        /\ Len(reqs) < MaxTwoReqs
        /\ handleYankVersion_verify(TokAlice, name, V1_2_0, TRUE)
    \/ \E name \in TwoNames :
        /\ Len(reqs) < MaxTwoReqs
        /\ handleGetPackage(name)
    \/ \E i \in DOMAIN reqs : handlePublishPackage_getUser(i)
    \/ \E i \in DOMAIN reqs : handlePublishPackage_getMetadata(i)
    \/ \E i \in DOMAIN reqs : handlePublishPackage_putTarball(i)
    \/ \E i \in DOMAIN reqs : handlePublishPackage_putMetadata(i)
    \/ \E i \in DOMAIN reqs : handlePublishPackage_putUser(i)
    \/ \E i \in DOMAIN reqs : handleGetPackage_putCounter(i)
    \/ \E i \in DOMAIN reqs : handleGetPackage_putCancelled(i)
    \/ \E i \in DOMAIN reqs : handleYankVersion_getUser(i)
    \/ \E i \in DOMAIN reqs : handleYankVersion_getMetadata(i)
    \/ \E i \in DOMAIN reqs : handleYankVersion_putMetadata(i)

SpecTwoPackages == Init /\ [][NextTwoPackages]_vars

(***************************************************************************)
(* SpecFrame: two versions of one package published under different        *)
(* descriptions, and get-package requests, with time passing               *)
(***************************************************************************)
FramePublishes ==
    { [PublishInput(TokAlice, NameA, V1_2_0, Body1) EXCEPT !.description = Desc1],
      [PublishInput(TokAlice, NameA, V1_10_0, Body2) EXCEPT !.description = Desc2] }

\* one millisecond passes
TickFrame ==
    /\ now < MaxFrameClock
    /\ now' = now + 1
    /\ UNCHANGED <<PACKAGES, TARBALLS, USERS, TOKENS, reqs, call>>

NextFrame ==
    \/ TickFrame
    \/ \E in \in FramePublishes :
        /\ Len(reqs) < MaxFrameReqs
        /\ handlePublishPackage_validate(in.token, in.name, in.version,
                                          in.body, in.description,
                                          in.signature, in.fingerprint)
    \/ /\ Len(reqs) < MaxFrameReqs
       /\ handleGetPackage(NameA)
    \/ \E i \in DOMAIN reqs : handlePublishPackage_getUser(i)
    \/ \E i \in DOMAIN reqs : handlePublishPackage_getMetadata(i)
    \/ \E i \in DOMAIN reqs : handlePublishPackage_putTarball(i)
    \/ \E i \in DOMAIN reqs : handlePublishPackage_putMetadata(i)
    \/ \E i \in DOMAIN reqs : handlePublishPackage_putUser(i)
    \/ \E i \in DOMAIN reqs : handleGetPackage_putCounter(i)
    \/ \E i \in DOMAIN reqs : handleGetPackage_putCancelled(i)

SpecFrame == Init /\ [][NextFrame]_vars

(***************************************************************************)
(* SpecDbSearch: searchPackages of db.ts applied to a packages table       *)
(***************************************************************************)
DbRows ==
    { [name |-> <<"a", "b">>, description |-> <<"C", "d">>,
       keywords |-> <<"k">>, downloads |-> 1],
      [name |-> <<"x", "_", "y">>, description |-> <<>>,
       keywords |-> <<>>, downloads |-> 2],
      [name |-> <<"e">>, description |-> <<"5", "0", "%">>,
       keywords |-> <<"f", "g">>, downloads |-> 3] }

\* the tables: name is the primary key
DbTables ==
    { t \in UNION { [1..n -> DbRows] : n \in 0..Cardinality(DbRows) } :
        \A i, j \in DOMAIN t : i /= j => t[i].name /= t[j].name }

DbQueries ==
    { <<>>, <<"a">>, <<"B">>, <<"c", "D">>, <<"g">>, <<"_">>, <<"%">>, <<"z">> }

InitDbSearch ==
    /\ PACKAGES = <<>>
    /\ TARBALLS = <<>>
    /\ USERS = <<>>
    /\ TOKENS = <<>>
    /\ reqs = <<>>
    /\ now = 0
    /\ call \in { Some([rows |-> t, query |-> q, ret |-> None]) :
                     t \in DbTables, q \in DbQueries }

searchPackages_call ==
    /\ call[1].ret = None
    /\ call' = Some([call[1] EXCEPT
                       !.ret = Some(searchPackages(call[1].rows, call[1].query))])
    /\ UNCHANGED <<PACKAGES, TARBALLS, USERS, TOKENS, reqs, now>>

NextDbSearch == searchPackages_call

SpecDbSearch == InitDbSearch /\ [][NextDbSearch]_vars

(***************************************************************************)
(* SpecCompare: compareVersions applied on its own to version strings that *)
(* the publish grammar accepts                                             *)
(***************************************************************************)
AcceptedVersions ==
    { v \in {V1_2_0, V1_10_0, V2_0_0, V1_2_0_rc, V1_2_0_rc_1, V1_2_0_rc_2, VBad,
              V1_0_2p53, V1_0_2p53_1} :
        ValidVersion(v) }

InitCompare ==
    /\ PACKAGES = <<>>
    /\ TARBALLS = <<>>
    /\ USERS = <<>>
    /\ TOKENS = <<>>
    /\ reqs = <<>>
    /\ now = 0
    /\ call \in { Some([a |-> a, b |-> b, c |-> c, ret |-> None]) :
                     a \in AcceptedVersions, b \in AcceptedVersions,
                     c \in AcceptedVersions }

\* the four comparisons of the arguments
compareVersions_call ==
    /\ call[1].ret = None
    /\ call' = Some([call[1] EXCEPT !.ret =
                  Some([ab |-> compareVersions(call[1].a, call[1].b),
                        ba |-> compareVersions(call[1].b, call[1].a),
                        bc |-> compareVersions(call[1].b, call[1].c),
                        ac |-> compareVersions(call[1].a, call[1].c)])])
    /\ UNCHANGED <<PACKAGES, TARBALLS, USERS, TOKENS, reqs, now>>

NextCompare == compareVersions_call

SpecCompare == InitCompare /\ [][NextCompare]_vars

(***************************************************************************)
(* SpecDownload: download requests on a registry as the handler can find   *)
(* it: package a stored or not, with one or two versions, yanked or not,   *)
(* and each blob present in the bucket or not                              *)
(***************************************************************************)
Alice == [id |-> "u-alice", name |-> "Alice", packages |-> <<NameA>>]

StoredVersion(version, body, yanked) ==
    [NewVersion(Request("publish", TokAlice, NameA, version, body, Desc1, FALSE))
        EXCEPT !.yanked = yanked]

DownloadVersionLists ==
    { <<StoredVersion(V1_2_0, Body1, y)>> : y \in BOOLEAN }
    \cup { <<StoredVersion(V1_10_0, Body2, FALSE), StoredVersion(V1_2_0, Body1, y)>> :
             y \in BOOLEAN }

DownloadPackages ==
    { <<>> } \cup
    { PkgKey(NameA) :> [NewPackage(NameA, Desc1, Alice) EXCEPT !.versions = vs] :
        vs \in DownloadVersionLists }

Blob(body) == [body |-> body, checksum |-> hashData(body), publisher |-> "u-alice"]

DownloadBuckets ==
    { <<>>,
      TarballKey(NameA, V1_2_0) :> Blob(Body1),
      TarballKey(NameA, V1_10_0) :> Blob(Body2),
      (TarballKey(NameA, V1_2_0) :> Blob(Body1))
          @@ (TarballKey(NameA, V1_10_0) :> Blob(Body2)) }

InitDownload ==
    /\ now = 0
    /\ PACKAGES \in DownloadPackages
    /\ TARBALLS \in DownloadBuckets
    /\ USERS = ("u-alice" :> Alice)
    /\ TOKENS = (TokAlice :> "u-alice")
    /\ reqs = <<>>
    /\ call = None

NextDownload ==
    \/ \E version \in {V1_2_0, V1_10_0} :
        /\ Len(reqs) < MaxDownloadReqs
        /\ handleDownloadPackage(NameA, version)
    \/ \E i \in DOMAIN reqs : handleDownloadPackage_getTarball(i)

SpecDownload == InitDownload /\ [][NextDownload]_vars

(***************************************************************************)
(* SpecRetry: one client that publishes, waits for the response and sends  *)
(* again, with store writes that can fail                                  *)
(***************************************************************************)
RetryPublishes ==
    { PublishInput(TokAlice, NameA, v, Body1) : v \in {V1_2_0, V1_10_0} }

NextRetry ==
    \/ \E in \in RetryPublishes :
        /\ Len(reqs) < MaxRetryReqs
        /\ \A k \in DOMAIN reqs : reqs[k].pc = "done"
        /\ handlePublishPackage_validate(in.token, in.name, in.version,
                                          in.body, in.description,
                                          in.signature, in.fingerprint)
    \/ \E i \in DOMAIN reqs : handlePublishPackage_getUser(i)
    \/ \E i \in DOMAIN reqs : handlePublishPackage_getMetadata(i)
    \/ \E i \in DOMAIN reqs : handlePublishPackage_putTarball(i)
    \/ \E i \in DOMAIN reqs : handlePublishPackage_putMetadata(i)
    \/ \E i \in DOMAIN reqs : handlePublishPackage_putUser(i)
    \/ \E i \in DOMAIN reqs : handlePublishPackage_putFails(i)

SpecRetry == Init /\ [][NextRetry]_vars

(***************************************************************************)
(* SpecDb: calls of createPackage, updatePackage, incrementDownloads,      *)
(* createVersion, setVersionYanked and getPackageVersions of db.ts, one    *)
(* statement each, in any order, on a database with the packages a and b.  *)
(* `call` holds the two tables and the log of the calls made.              *)
(***************************************************************************)
NameC == <<"c">>

DbPackage(name, downloads) ==
    [name |-> name, description |-> Desc1, authors |-> <<"[", "]">>,
     license |-> <<"M", "I", "T">>, repository |-> Some(<<"r">>),
     homepage |-> None, keywords |-> <<"[", "]">>, downloads |-> downloads,
     created_at |-> toISOString(0), updated_at |-> toISOString(0)]

DbPackages == (NameA :> DbPackage(NameA, 0)) @@ (NameB :> DbPackage(NameB, 2))

DbUpdates ==
    { <<>>,
      [description |-> Desc2],
      [description |-> Desc2, keywords |-> <<"k">>],
      [repository |-> None, downloads |-> 5],
      [name |-> NameC],
      [created_at |-> toISOString(1), updated_at |-> toISOString(1)] }

\* the argument of createPackage: a package row without downloads
DbNewPackage(name) ==
    [c \in DOMAIN DbPackage(name, 0) \ {"downloads"} |->
        IF c \in {"created_at", "updated_at"} THEN toISOString(now)
        ELSE DbPackage(name, 0)[c]]

DbVersion(packageName, version) ==
    [package_name |-> packageName, version |-> version,
     published_at |-> toISOString(now), yanked |-> 0,
     checksum |-> hashData(Body1), size |-> Len(Body1),
     signature |-> None, publisher_fingerprint |-> None]

InitDb ==
    /\ PACKAGES = <<>>
    /\ TARBALLS = <<>>
    /\ USERS = <<>>
    /\ TOKENS = <<>>
    /\ reqs = <<>>
    /\ now = 0
    /\ call = Some([packages |-> DbPackages, versions |-> <<>>, log |-> <<>>])

DbCall(db, entry) ==
    /\ Len(call[1].log) < MaxDbCalls
    /\ call' = Some([db EXCEPT !.log = Append(call[1].log, entry)])
    /\ UNCHANGED <<PACKAGES, TARBALLS, USERS, TOKENS, reqs, now>>

createPackage_call(name) ==
    LET done == createPackage(call[1].packages, DbNewPackage(name))
    IN  DbCall([call[1] EXCEPT !.packages = done.packages],
               [fn |-> "createPackage", name |-> name, ok |-> done.ok])

updatePackage_call(name, updates) ==
    DbCall([call[1] EXCEPT !.packages = updatePackage(call[1].packages, name, updates)],
           [fn |-> "updatePackage", name |-> name, updates |-> updates])

incrementDownloads_call(name) ==
    DbCall([call[1] EXCEPT !.packages = incrementDownloads(call[1].packages, name)],
           [fn |-> "incrementDownloads", name |-> name])

createVersion_call(packageName, version) ==
    LET done == createVersion(call[1].versions, DbVersion(packageName, version))
    IN  DbCall([call[1] EXCEPT !.versions = done.versions],
               [fn |-> "createVersion", name |-> packageName,
                version |-> version, ok |-> done.ok])

setVersionYanked_call(packageName, version, yanked) ==
    DbCall([call[1] EXCEPT !.versions = setVersionYanked(call[1].versions, packageName,
                                                        version, yanked)],
           [fn |-> "setVersionYanked", name |-> packageName,
            version |-> version, yanked |-> yanked])

getPackageVersions_call(packageName) ==
    \E rows \in getPackageVersions(call[1].versions, packageName) :
        DbCall(call[1],
               [fn |-> "getPackageVersions", name |-> packageName, ret |-> rows])

\* one millisecond passes between two calls
TickDb ==
    /\ now < MaxDbClock
    /\ now' = now + 1
    /\ UNCHANGED <<PACKAGES, TARBALLS, USERS, TOKENS, reqs, call>>

NextDb ==
    \/ TickDb
    \/ \E name \in {NameA, NameC} : createPackage_call(name)
    \/ \E name \in {NameA, NameC} : \E updates \in DbUpdates :
          updatePackage_call(name, updates)
    \/ \E name \in {NameA, NameC} : incrementDownloads_call(name)
    \/ \E in \in {<<NameA, V1_2_0>>, <<NameA, V1_10_0>>, <<NameB, V1_2_0>>} :
          createVersion_call(in[1], in[2])
    \/ \E yanked \in BOOLEAN : setVersionYanked_call(NameA, V1_2_0, yanked)
    \/ getPackageVersions_call(NameA)

SpecDb == InitDb /\ [][NextDb]_vars

(***************************************************************************)
(* SpecRegister: register requests on a registry without users             *)
(***************************************************************************)
EmailX == <<"x", "@", "y">>
EmailZ == <<"z", "@", "y">>

InitRegister ==
    /\ PACKAGES = <<>>
    /\ TARBALLS = <<>>
    /\ USERS = <<>>
    /\ TOKENS = <<>>
    /\ reqs = <<>>
    /\ now = 0
    /\ call = None

NextRegister ==
    \/ \E email \in {EmailX, EmailZ, <<>>} :
        /\ Len(reqs) < MaxRegisterReqs
        /\ handleRegisterUser_getEmail(email, <<"n">>)
    \/ \E i \in DOMAIN reqs : handleRegisterUser_putUser(i)
    \/ \E i \in DOMAIN reqs : handleRegisterUser_putEmail(i)
    \/ \E i \in DOMAIN reqs : handleRegisterUser_putToken(i)

SpecRegister == InitRegister /\ [][NextRegister]_vars


(***************************************************************************)
(* Properties                                                              *)
(***************************************************************************)
IsPublish(i) == reqs[i].kind = "publish"
IsYank(i) == reqs[i].kind = "yank"
Done(i) == reqs[i].pc = "done"
AllDone == \A k \in DOMAIN reqs : Done(k)
SameTarget(i, j) == reqs[i].name = reqs[j].name /\ reqs[i].version = reqs[j].version

StoredVersions(name) ==
    IF Has(PACKAGES, PkgKey(name)) THEN PACKAGES[PkgKey(name)].versions ELSE <<>>

\* C1: of two publish requests for the same (name, version) that run
\* concurrently, exactly one returns 201 and the other returns 409.
\* (Checked under SpecSimul, where all requests of a behaviour overlap.)
C1_ExactlyOnePublishSucceeds ==
    \A i, j \in DOMAIN reqs :
        (i < j /\ IsPublish(i) /\ IsPublish(j) /\ SameTarget(i, j)
               /\ Done(i) /\ Done(j))
        => {reqs[i].status, reqs[j].status} = {201, 409}

\* C2: two concurrent publish requests for different versions of one package
\* both return 201, and once both have finished the stored versions list
\* holds both versions.  (Checked under SpecSimul.)
C2_NoLostVersion ==
    \A i, j \in DOMAIN reqs :
        (i < j /\ IsPublish(i) /\ IsPublish(j) /\ reqs[i].name = reqs[j].name
               /\ reqs[i].version /= reqs[j].version /\ AllDone)
        => /\ reqs[i].status = 201 /\ reqs[j].status = 201
           /\ HasVersion(StoredVersions(reqs[i].name), reqs[i].version)
           /\ HasVersion(StoredVersions(reqs[j].name), reqs[j].version)

\* C3: a publish request received after a publish of the same (name, version)
\* has returned 201 (its `prior` flag) never gets past its authentication
\* and its read of the package record to the blob write or the metadata
\* write, and when authenticated with a non-empty body returns 409.
C3_RepublishConflicts ==
    \A j \in DOMAIN reqs :
        (IsPublish(j) /\ reqs[j].prior)
        => /\ reqs[j].pc \in {"auth", "read", "done"}
           /\ Done(j) => reqs[j].status \in {409, 401, 400}
           /\ (Done(j) /\ reqs[j].body /= <<>>
                 /\ reqs[j].token \in {TokAlice, TokBob, ADMIN_TOKEN})
              => reqs[j].status = 409

\* C4: a publish request whose caller is neither the admin nor has the
\* package on its list, and that finds the package already stored, ends in
\* that step with 403: it does not go on to the blob, metadata and user writes.
\* (Stated for a version the package does not hold yet; for a version it
\* holds the request ends with 409.)
C4_PublishByNonOwnerForbidden ==
    [][\A i \in DOMAIN reqs :
          (/\ IsPublish(i) /\ reqs[i].pc = "read"
           /\ reqs'[i] /= reqs[i]
           /\ Has(PACKAGES, PkgKey(reqs[i].name))
           /\ ~HasVersion(StoredVersions(reqs[i].name), reqs[i].version)
           /\ reqs[i].user[1].id /= "admin"
           /\ ~Includes(reqs[i].user[1].packages, reqs[i].name))
          => (reqs'[i].pc = "done" /\ reqs'[i].status = 403)]_vars

\* C5 as claimed: a yank/unyank request goes on to its PACKAGES.put only
\* when the caller it authenticated as is the admin or has the package on
\* its list; a request of any other authenticated caller ends with 403 in a
\* step that leaves PACKAGES unchanged, and a request that ended with 403 or
\* is still before its put has not changed PACKAGES.
C5_YankNeedsOwnerOrAdmin ==
    [][\A i \in DOMAIN reqs :
          (IsYank(i) /\ reqs'[i] /= reqs[i])
          => LET r == reqs[i]
                 authorized == \/ r.user[1].id = "admin"
                               \/ \E k \in 1..Len(r.user[1].packages) :
                                      r.user[1].packages[k] = r.name
             IN  /\ r.pc = "read" =>
                        /\ PACKAGES' = PACKAGES
                        /\ reqs'[i].pc = "commit" => authorized
                        /\ ~authorized
                           => (reqs'[i].pc = "done" /\ reqs'[i].status = 403)
                 /\ PACKAGES' /= PACKAGES => (r.pc = "commit" /\ authorized)]_vars

\* C5 amended: a yank/unyank request goes on to its PACKAGES.put only when
\* the caller it authenticated as is the admin or has the package on its
\* list; a request of any other authenticated caller ends with 403 when the
\* package holds the version and with 404 when the package or the version is
\* not stored, in a step that leaves PACKAGES unchanged, and a request that
\* ended with 403 or 404 or is still before its put has not changed PACKAGES.
C5_YankNeedsOwnerOrAdminElseForbiddenOrNotFound ==
    [][\A i \in DOMAIN reqs :
          (IsYank(i) /\ reqs'[i] /= reqs[i])
          => LET r == reqs[i]
                 authorized == \/ r.user[1].id = "admin"
                               \/ \E k \in 1..Len(r.user[1].packages) :
                                      r.user[1].packages[k] = r.name
                 stored == HasVersion(StoredVersions(r.name), r.version)
             IN  /\ r.pc = "read" =>
                        /\ PACKAGES' = PACKAGES
                        /\ reqs'[i].pc = "commit" => authorized
                        /\ (~authorized /\ stored)
                           => (reqs'[i].pc = "done" /\ reqs'[i].status = 403)
                        /\ (~authorized /\ ~stored)
                           => (reqs'[i].pc = "done" /\ reqs'[i].status = 404)
                 /\ PACKAGES' /= PACKAGES => (r.pc = "commit" /\ authorized)]_vars

\* C5 witness: a yank by a caller who does not own the package has been
\* refused with 403 and the stored version is still not yanked.
C5_Witness ==
    \E i \in DOMAIN reqs :
        /\ IsYank(i) /\ Done(i) /\ reqs[i].status = 403
        /\ reqs[i].token = TokBob /\ reqs[i].yank
        /\ \E k \in 1..Len(StoredVersions(reqs[i].name)) :
              /\ StoredVersions(reqs[i].name)[k].version = reqs[i].version
              /\ ~StoredVersions(reqs[i].name)[k].yanked

\* C6: in no step does the checksum or the size of a version record that is
\* stored before and after the step change.
C6_ChecksumAndSizeFrozen ==
    [][\A key \in DOMAIN PACKAGES :
          \A k \in 1..Len(PACKAGES[key].versions) :
              \A m \in 1..Len(PACKAGES'[key].versions) :
                  PACKAGES'[key].versions[m].version = PACKAGES[key].versions[k].version
                  => /\ PACKAGES'[key].versions[m].checksum = PACKAGES[key].versions[k].checksum
                     /\ PACKAGES'[key].versions[m].size = PACKAGES[key].versions[k].size]_vars

\* C7: no publish request performs its TARBALLS.put on a key that already
\* holds an object.
C7_BlobWrittenOnce ==
    [][\A i \in DOMAIN reqs :
          (IsPublish(i) /\ reqs[i].pc = "blob" /\ reqs'[i].pc = "commit")
          => ~Has(TARBALLS, TarballKey(reqs[i].name, reqs[i].version))]_vars

\* C8: every stored version record whose tarball exists carries the digest
\* and the length of the bytes now stored in that tarball.
C8_ChecksumMatchesBlob ==
    \A key \in DOMAIN PACKAGES :
        \A k \in 1..Len(PACKAGES[key].versions) :
            LET v == PACKAGES[key].versions[k]
                tk == TarballKey(PACKAGES[key].name, v.version)
            IN  Has(TARBALLS, tk)
                => /\ v.checksum = hashData(TARBALLS[tk].body)
                   /\ v.size = Len(TARBALLS[tk].body)

\* C9: every version whose publish returned 201 is in the stored versions list
\* of its package, and once all requests have finished the list is as long as
\* the number of distinct versions successfully published.
PublishedVersions(name) ==
    { reqs[k].version : k \in { m \in DOMAIN reqs :
          IsPublish(m) /\ reqs[m].status = 201 /\ reqs[m].name = name } }

C9_PublishedVersionsStay ==
    \A i \in DOMAIN reqs :
        (IsPublish(i) /\ reqs[i].status = 201)
        => /\ HasVersion(StoredVersions(reqs[i].name), reqs[i].version)
           /\ AllDone => Len(StoredVersions(reqs[i].name))
                            = Cardinality(PublishedVersions(reqs[i].name))

\* C10: every stored versions list has pairwise different version strings and
\* is in descending order of compareVersions.
C10_VersionsUniqueAndSorted ==
    \A key \in DOMAIN PACKAGES :
        \A k, m \in 1..Len(PACKAGES[key].versions) :
            k < m => /\ PACKAGES[key].versions[k].version
                          /= PACKAGES[key].versions[m].version
                     /\ Sign(compareVersions(PACKAGES[key].versions[k].version,
                                             PACKAGES[key].versions[m].version)) >= 0

\* C10 witness: 1.10.0 was published after 1.2.0 and a pre-release of 1.2.0 is
\* stored too; the list holds 1.10.0 first.
C10_Witness ==
    /\ Len(StoredVersions(NameA)) = 3
    /\ StoredVersions(NameA)[1].version = V1_10_0
    /\ HasVersion(StoredVersions(NameA), V1_2_0_rc_1)
    /\ \E i, j \in DOMAIN reqs :
          /\ i < j /\ IsPublish(i) /\ IsPublish(j)
          /\ reqs[i].version = V1_2_0 /\ reqs[i].status = 201
          /\ reqs[j].version = V1_10_0 /\ reqs[j].status = 201

IsDownload(i) == reqs[i].kind = "download"
IsGet(i) == reqs[i].kind = "get"

\* the record of `version` in a versions list is there with this flag value
StoredFlag(versions, version, flag) ==
    \E k \in 1..Len(versions) :
        versions[k].version = version /\ versions[k].yanked = flag

\* C11: the step in which a yank returns 200 leaves the version's record in
\* the stored versions list with yanked = true; and a download request that
\* finds the record of its version stored with yanked = true is answered in
\* that step with 410, not 404.
C11_YankedVersionIsGone ==
    [][/\ \A i \in DOMAIN reqs :
            (/\ IsYank(i) /\ reqs[i].yank
             /\ reqs[i].pc = "commit" /\ reqs'[i].pc = "done")
            => /\ reqs'[i].status = 200
               /\ StoredFlag(PACKAGES'[PkgKey(reqs[i].name)].versions,
                             reqs[i].version, TRUE)
       /\ (Len(reqs') = Len(reqs) + 1 /\ reqs'[Len(reqs')].kind = "download")
          => LET d == reqs'[Len(reqs')]
             IN  StoredFlag(StoredVersions(d.name), d.version, TRUE)
                 => (d.pc = "done" /\ d.status = 410)]_vars

\* C11 witness: a yank of a stored version returned 200 and a download
\* received after it was answered 410 while the record is stored, yanked.
C11_Witness ==
    \E i, j \in DOMAIN reqs :
        /\ i < j /\ IsYank(i) /\ reqs[i].yank /\ reqs[i].status = 200
        /\ IsDownload(j) /\ SameTarget(i, j) /\ reqs[j].status = 410
        /\ StoredFlag(StoredVersions(reqs[i].name), reqs[i].version, TRUE)

\* C12: in every step that changes the yanked flag of a stored version
\* record, a yank or unyank request for that package and version performs its
\* PACKAGES.put and returns 200, and the flag takes the value it asked for.
C12_FlagChangesOnlyByYank ==
    [][\A key \in DOMAIN PACKAGES :
          \A k \in 1..Len(PACKAGES[key].versions) :
              \A m \in 1..Len(PACKAGES'[key].versions) :
                  (/\ PACKAGES'[key].versions[m].version = PACKAGES[key].versions[k].version
                   /\ PACKAGES'[key].versions[m].yanked /= PACKAGES[key].versions[k].yanked)
                  => \E i \in DOMAIN reqs :
                        /\ IsYank(i) /\ reqs[i].pc = "commit"
                        /\ reqs'[i].pc = "done" /\ reqs'[i].status = 200
                        /\ PkgKey(reqs[i].name) = key
                        /\ reqs[i].version = PACKAGES[key].versions[k].version
                        /\ reqs[i].yank = PACKAGES'[key].versions[m].yanked]_vars

\* `text` is what a page may report as latest for this versions list: the
\* version of the first record that is not yanked, or, when there is none,
\* a text that is the version of no record
ReportsLatest(versions, text) ==
    IF \E k \in 1..Len(versions) : ~versions[k].yanked
    THEN \E k \in 1..Len(versions) :
            /\ versions[k].version = text /\ ~versions[k].yanked
            /\ \A j \in 1..(k - 1) : versions[j].yanked
    ELSE \A k \in 1..Len(versions) : versions[k].version /= text

\* C13: in the step in which the package list, the home page or the search
\* page adds the entry of a package, and in the step in which the package
\* page is built, the latest version reported is the first not yanked record
\* of the versions list just read, and no version at all when every record
\* is yanked.
C13_LatestIsNeverYanked ==
    [][\A i \in DOMAIN reqs' :
          /\ (/\ i \in DOMAIN reqs
              /\ reqs[i].kind \in {"list", "home", "search"}
              /\ Len(reqs'[i].result[1].packages) > Len(reqs[i].result[1].packages))
             => LET entry == reqs'[i].result[1].packages[Len(reqs'[i].result[1].packages)]
                IN  ReportsLatest(StoredVersions(entry.name), entry.latest)
          /\ (i \notin DOMAIN reqs /\ reqs'[i].kind = "page" /\ reqs'[i].status = 200)
             => ReportsLatest(StoredVersions(reqs'[i].name), reqs'[i].result[1].latest)]_vars

\* request i is a yank that returned 200 on a version stored not yanked,
\* request j an unyank of it that returned 200; j read the record that i put
\* and the stored record is the one that j put: nothing ran in between
YankThenUnyank(i, j) ==
    /\ IsYank(i) /\ reqs[i].yank /\ reqs[i].status = 200
    /\ IsYank(j) /\ ~reqs[j].yank /\ reqs[j].status = 200
    /\ SameTarget(i, j)
    /\ StoredFlag(reqs[i].seen[1].versions, reqs[i].version, FALSE)
    /\ reqs[j].seen = reqs[i].wrote
    /\ PACKAGES[PkgKey(reqs[j].name)] = reqs[j].wrote[1]

\* C14 as claimed: after a yank and an unyank of a version with nothing in
\* between, the stored package record is the record the yank had read, in
\* every field.
C14_YankUnyankRestores ==
    \A i, j \in DOMAIN reqs :
        YankThenUnyank(i, j)
        => PACKAGES[PkgKey(reqs[i].name)] = reqs[i].seen[1]

\* C14 amended: after a yank and an unyank of a version with nothing in
\* between, the stored package record is the record the yank had read in
\* every field but updated_at, and the version is not yanked again.
C14_YankUnyankRestoresButUpdatedAt ==
    \A i, j \in DOMAIN reqs :
        YankThenUnyank(i, j)
        => LET stored == PACKAGES[PkgKey(reqs[i].name)]
           IN  /\ [stored EXCEPT !.updated_at = reqs[i].seen[1].updated_at]
                     = reqs[i].seen[1]
               /\ StoredFlag(stored.versions, reqs[i].version, FALSE)

\* C14 witness: a yank and an unyank with nothing in between have both
\* returned 200, at a later millisecond than the record's last change.
C14_Witness ==
    \E i, j \in DOMAIN reqs :
        /\ YankThenUnyank(i, j)
        /\ PACKAGES[PkgKey(reqs[i].name)].updated_at /= reqs[i].seen[1].updated_at

\* C15: a yank (unyank) request of the owner or the admin that finds the
\* version stored already yanked (not yanked) goes on to its PACKAGES.put with
\* a versions list equal to the one it read, and every yank request that
\* performs its put writes that record and returns 200.
C15_YankIsIdempotent ==
    [][\A i \in DOMAIN reqs :
          (IsYank(i) /\ reqs'[i] /= reqs[i])
          => LET r == reqs[i]
             IN  /\ (/\ r.pc = "read"
                     /\ StoredFlag(StoredVersions(r.name), r.version, r.yank)
                     /\ MayModify(r.user[1], r.name))
                    => /\ reqs'[i].pc = "commit"
                       /\ reqs'[i].metadata[1].versions = StoredVersions(r.name)
                 /\ r.pc = "commit"
                    => /\ reqs'[i].pc = "done" /\ reqs'[i].status = 200
                       /\ PACKAGES'[PkgKey(r.name)] = r.metadata[1]]_vars

\* C15 witness: a second yank of a version, which read it already yanked,
\* has returned 200 like the first, and the version is stored yanked.
C15_Witness ==
    \E i, j \in DOMAIN reqs :
        /\ i < j /\ IsYank(i) /\ IsYank(j) /\ SameTarget(i, j)
        /\ reqs[i].yank /\ reqs[j].yank
        /\ reqs[i].status = 200 /\ reqs[j].status = 200
        /\ StoredFlag(reqs[j].seen[1].versions, reqs[j].version, TRUE)
        /\ StoredFlag(StoredVersions(reqs[j].name), reqs[j].version, TRUE)

\* C16: no step lowers the stored downloads counter of a package.
C16_DownloadsNeverDecrease ==
    [][\A key \in DOMAIN PACKAGES :
          PACKAGES'[key].downloads >= PACKAGES[key].downloads]_vars

\* the get-package requests for `name` that returned the package
SuccessfulGets(name) ==
    { i \in DOMAIN reqs : IsGet(i) /\ reqs[i].name = name /\ reqs[i].status = 200 }

\* C17: once every request has finished and the counter write of every
\* get-package request that returned the package has reached the store, the
\* stored downloads counter is the number of those requests.
C17_NoLostIncrement ==
    \A key \in DOMAIN PACKAGES :
        LET name == PACKAGES[key].name
        IN  (AllDone /\ \A i \in SuccessfulGets(name) : reqs[i].wrote /= None)
            => PACKAGES[key].downloads = Cardinality(SuccessfulGets(name))

\* (major, minor, patch) of a version string that the grammar accepts, each
\* as the exact magnitude of its digits
Triple(v) ==
    LET d == IndexOf(v, "-")
        cs == Split(IF d = 0 THEN v ELSE SubSeq(v, 1, d - 1), ".")
    IN  <<MagOf(cs[1]), MagOf(cs[2]), MagOf(cs[3])>>

\* the sign of the lexicographic comparison of two triples
TripleSign(s, t) ==
    IF s[1] /= t[1] THEN CmpMag(s[1], t[1])
    ELSE IF s[2] /= t[2] THEN CmpMag(s[2], t[2])
    ELSE CmpMag(s[3], t[3])

Compared == call /= None /\ call[1].ret /= None

\* C18: for accepted version strings a, b, c the results of compareVersions
\* are sign-antisymmetric and transitive, the sign of compareVersions(a, b) is
\* that of the lexicographic comparison of their (major, minor, patch)
\* triples, and compareVersions('1.2.0', '1.10.0') is negative.
C18_CompareIsTripleOrder ==
    Compared
    => LET x == call[1]
           r == call[1].ret[1]
       IN  /\ Sign(r.ab) = 0 - Sign(r.ba)
           /\ (Sign(r.ab) <= 0 /\ Sign(r.bc) <= 0) => Sign(r.ac) <= 0
           /\ Sign(r.ab) = TripleSign(Triple(x.a), Triple(x.b))
           /\ (x.a = V1_2_0 /\ x.b = V1_10_0) => Sign(r.ab) < 0

\* C19: for accepted version strings a and b with the same major, minor and
\* patch, compareVersions(a, b) is 0.
C19_PreReleaseIgnored ==
    (Compared /\ Triple(call[1].a) = Triple(call[1].b))
    => Sign(call[1].ret[1].ab) = 0

Rejected(r) == r.kind = "publish" /\ r.status \in {400, 401}

\* the inputs of a publish fail a check of index.ts:240-265
InvalidPublish(d) ==
    \/ d.body = <<>> \/ d.name = <<>> \/ d.version = <<>>
    \/ ~ValidName(d.name) \/ ~ValidVersion(d.version)

\* C20: a publish request without a token or with an unknown one is answered
\* 401 in the step that receives it, one whose user record is missing 401 in
\* the step of its USERS.get, and one with an empty body, a missing name or
\* version, a name or a version outside its pattern 400 in the step that
\* ends its authentication; the steps of a publish request up to there change
\* none of PACKAGES, TARBALLS, USERS and TOKENS, a publish request gets a
\* status 400 or 401 in no other step, and a request so answered takes no
\* further step.
C20_RejectedPublishWritesNothing ==
    [][/\ \A i \in DOMAIN reqs' :
            (i \notin DOMAIN reqs /\ reqs'[i].kind = "publish")
            => LET d == reqs'[i]
                   unauthenticated ==
                       d.token = Nil \/ d.token \notin {ADMIN_TOKEN} \cup DOMAIN TOKENS
               IN  /\ unauthenticated => (d.pc = "done" /\ d.status = 401)
                   /\ (d.token = ADMIN_TOKEN /\ InvalidPublish(d))
                      => (d.pc = "done" /\ d.status = 400)
                   /\ (~unauthenticated /\ d.token /= ADMIN_TOKEN) => d.pc = "auth"
                   /\ UNCHANGED <<PACKAGES, TARBALLS, USERS, TOKENS>>
       /\ \A i \in DOMAIN reqs :
            /\ (IsPublish(i) /\ reqs[i].pc = "auth" /\ reqs'[i] /= reqs[i])
               => LET d == reqs'[i]
                  IN  /\ ~Has(USERS, reqs[i].userId)
                         => (d.pc = "done" /\ d.status = 401)
                      /\ (Has(USERS, reqs[i].userId) /\ InvalidPublish(d))
                         => (d.pc = "done" /\ d.status = 400)
                      /\ UNCHANGED <<PACKAGES, TARBALLS, USERS, TOKENS>>
            /\ Rejected(reqs[i]) => reqs'[i] = reqs[i]
            /\ Rejected(reqs'[i]) => (Rejected(reqs[i]) \/ reqs[i].pc = "auth")]_vars

\* C20 witness: one publish was answered 401 and one with a version outside
\* the grammar 400, and nothing is stored.
C20_Witness ==
    /\ \E i, j \in DOMAIN reqs :
          /\ IsPublish(i) /\ reqs[i].status = 401 /\ reqs[i].token = TokBogus
          /\ IsPublish(j) /\ reqs[j].status = 400 /\ reqs[j].version = VBad
    /\ PACKAGES = <<>> /\ TARBALLS = <<>>
    /\ \A u \in DOMAIN USERS : USERS[u].packages = <<>>

\* request i is a publish that found no record of its package and returned 201
CreatedPackage(i) ==
    IsPublish(i) /\ reqs[i].status = 201 /\ reqs[i].seen = None

\* C21: a yank request received after a publish by the same non-admin
\* caller has created the package and returned 201 (its `prior` flag) is
\* authenticated as a user whose package list holds the package, and no yank
\* request of a user whose list holds the package is answered 403.
C21_CreatorMayYank ==
    [][\A j \in DOMAIN reqs :
          /\ (/\ IsYank(j) /\ reqs[j].pc = "auth" /\ reqs'[j] /= reqs[j]
              /\ reqs[j].prior)
             => /\ reqs'[j].pc = "read"
                /\ Includes(reqs'[j].user[1].packages, reqs'[j].name)
          /\ (/\ IsYank(j) /\ reqs[j].pc = "read"
              /\ Includes(reqs[j].user[1].packages, reqs[j].name))
             => reqs'[j].status /= 403]_vars

\* the users whose package list holds `name`
Owners(name) == { u \in DOMAIN USERS : Includes(USERS[u].packages, name) }

\* the users who created `name`: a publish of theirs found no record and
\* returned 201
Creators(name) ==
    { IF reqs[i].token = ADMIN_TOKEN THEN "admin" ELSE TOKENS[reqs[i].token] :
        i \in { k \in DOMAIN reqs : CreatedPackage(k) /\ reqs[k].name = name } }

\* C22: every package has at most one owner, and once no publish is on its
\* way every owner of a package is a user whose publish created it.
C22_OnlyCreatorOwns ==
    \A name \in {NameA, NameB} :
        /\ Cardinality(Owners(name)) <= 1
        /\ (\A k \in DOMAIN reqs : IsPublish(k) => Done(k))
           => Owners(name) \subseteq Creators(name)

\* `text` contains `q` as a substring, letters compared whatever their case
ContainsIgnoringCase(text, q) ==
    \E off \in 0..(Len(text) - Len(q)) :
        \A n \in 1..Len(q) :
            \/ text[off + n] = q[n]
            \/ \E m \in 1..26 : {text[off + n], q[n]} = {UpperSeq[m], LowerSeq[m]}

\* C23: searchPackages returns exactly the rows of the table whose name,
\* description or keywords contain the query as a case-insensitive substring
\* (every row for the empty query, none for a query contained nowhere).
C23_SearchIsSubstringMatch ==
    (call /= None /\ call[1].ret /= None)
    => LET x == call[1]
       IN  { x.ret[1][k].name : k \in 1..Len(x.ret[1]) }
             = { x.rows[k].name : k \in { m \in 1..Len(x.rows) :
                    \/ ContainsIgnoringCase(x.rows[m].name, x.query)
                    \/ ContainsIgnoringCase(x.rows[m].description, x.query)
                    \/ ContainsIgnoringCase(x.rows[m].keywords, x.query) } }

Stores == <<PACKAGES, TARBALLS, USERS, TOKENS>>

\* C24 as claimed: a get-package or download request received, and a
\* yank/unyank request answered, while the package has no stored record is
\* answered 404, in a step that changes no store.
C24_MissingPackageIsNotFound ==
    [][\A i \in DOMAIN reqs' :
          LET d == reqs'[i]
              answered == IF i \in DOMAIN reqs THEN ~Done(i) /\ d.pc = "done"
                          ELSE d.pc = "done"
          IN  /\ (/\ i \notin DOMAIN reqs /\ d.kind \in {"get", "download"}
                  /\ ~Has(PACKAGES, PkgKey(d.name)))
                 => (d.pc = "done" /\ d.status = 404 /\ Stores' = Stores)
              /\ (d.kind = "yank" /\ answered /\ ~Has(PACKAGES, PkgKey(d.name)))
                 => (d.status = 404 /\ Stores' = Stores)]_vars

\* C24 amended: a get-package or download request received while the
\* package has no stored record, and a yank/unyank request of an
\* authenticated caller whose PACKAGES.get finds no record, is answered 404 in
\* that step, which changes no store; a yank/unyank request that does not
\* authenticate is answered 401.
C24_MissingPackageIsNotFoundOnceAuthenticated ==
    [][\A i \in DOMAIN reqs' :
          LET d == reqs'[i]
          IN  /\ (/\ i \notin DOMAIN reqs /\ d.kind \in {"get", "download"}
                  /\ ~Has(PACKAGES, PkgKey(d.name)))
                 => (d.pc = "done" /\ d.status = 404 /\ Stores' = Stores)
              /\ (/\ i \in DOMAIN reqs /\ d.kind = "yank" /\ reqs[i].pc = "read"
                  /\ d /= reqs[i] /\ ~Has(PACKAGES, PkgKey(d.name)))
                 => (d.pc = "done" /\ d.status = 404 /\ Stores' = Stores)
              /\ (/\ i \notin DOMAIN reqs /\ d.kind = "yank"
                  /\ d.token \notin {ADMIN_TOKEN} \cup DOMAIN TOKENS)
                 => (d.pc = "done" /\ d.status = 401 /\ Stores' = Stores)
              /\ (/\ i \in DOMAIN reqs /\ d.kind = "yank" /\ reqs[i].pc = "auth"
                  /\ d /= reqs[i] /\ ~Has(USERS, reqs[i].userId))
                 => (d.pc = "done" /\ d.status = 401 /\ Stores' = Stores)]_vars

\* C24 witness: a yank of an authenticated caller who owns nothing and a
\* get-package were both answered 404 and no package is stored.
C24_Witness ==
    /\ PACKAGES = <<>> /\ TARBALLS = <<>>
    /\ \E i, j \in DOMAIN reqs :
          /\ IsYank(i) /\ reqs[i].token = TokBob /\ reqs[i].status = 404
          /\ IsGet(j) /\ reqs[j].status = 404

\* C25: after every step each stored package record has a non-empty versions
\* list, and a record that was not stored before the step is put by a publish
\* request of that package at its PACKAGES.put, past validation and the
\* duplicate check, and holds the version of that request; when the request
\* is answered in that step the answer is 201.
C25_RecordsComeFromPublish ==
    [][\A key \in DOMAIN PACKAGES' :
          /\ PACKAGES'[key].versions /= <<>>
          /\ key \notin DOMAIN PACKAGES
             => \E i \in DOMAIN reqs :
                   /\ IsPublish(i) /\ reqs[i].pc = "commit"
                   /\ reqs'[i].pc \in {"grant", "done"}
                   /\ reqs'[i].pc = "done" => reqs'[i].status = 201
                   /\ PkgKey(reqs[i].name) = key
                   /\ HasVersion(PACKAGES'[key].versions, reqs[i].version)]_vars

\* C25 witness: a package is stored, a publish created it and returned 201,
\* and a get-package has written the record back since.
C25_Witness ==
    \E i, j \in DOMAIN reqs :
        /\ CreatedPackage(i)
        /\ IsGet(j) /\ reqs[j].name = reqs[i].name /\ reqs[j].wrote /= None
        /\ PACKAGES[PkgKey(reqs[i].name)] = reqs[j].wrote[1]
        /\ PACKAGES[PkgKey(reqs[i].name)].versions /= <<>>

\* the step in which publish request i puts the metadata record
PublishCommits(i) ==
    /\ IsPublish(i) /\ reqs[i].pc = "commit"
    /\ reqs'[i].pc /= "commit"

\* C26: the step in which a publish request puts the metadata record leaves,
\* when the package is stored, the description, authors, license, keywords,
\* created_at and downloads of the stored record as they are and keeps every
\* version record of it; when the package is not stored, the record put has
\* downloads 0.
C26_PublishKeepsDescriptiveFields ==
    [][\A i \in DOMAIN reqs :
          PublishCommits(i)
          => LET key == PkgKey(reqs[i].name)
                 new == PACKAGES'[key]
             IN  IF ~Has(PACKAGES, key) THEN new.downloads = 0
                 ELSE LET old == PACKAGES[key]
                      IN  /\ new.description = old.description
                          /\ new.authors = old.authors
                          /\ new.license = old.license
                          /\ new.keywords = old.keywords
                          /\ new.created_at = old.created_at
                          /\ new.downloads = old.downloads
                          /\ \A k \in 1..Len(old.versions) :
                                \E m \in 1..Len(new.versions) :
                                    new.versions[m] = old.versions[k]]_vars

\* yank request i and publish request j of another version both read the
\* package with the version of i stored, and both were accepted
YankBesidePublish(i, j) ==
    /\ IsYank(i) /\ reqs[i].yank /\ reqs[i].status = 200
    /\ IsPublish(j) /\ reqs[j].status = 201
    /\ reqs[j].name = reqs[i].name /\ reqs[j].version /= reqs[i].version
    /\ reqs[j].seen /= None
    /\ HasVersion(reqs[j].seen[1].versions, reqs[i].version)

\* C27: when a yank of a stored version and a publish of another version of
\* the package were both accepted, no other request was received after the
\* publish that created the package, and all requests are complete, the
\* stored record has the version yanked and has the new version.
C27_YankAndPublishSerialize ==
    \A i, j \in DOMAIN reqs :
        (Len(reqs) = 3 /\ AllDone /\ {i, j} = {2, 3} /\ YankBesidePublish(i, j))
        => /\ StoredFlag(StoredVersions(reqs[i].name), reqs[i].version, TRUE)
           /\ HasVersion(StoredVersions(reqs[j].name), reqs[j].version)

\* the stored metadata records of package `name`
RecordsOf(store, name) ==
    LET keys == { key \in DOMAIN store : store[key].name = name }
    IN  [key \in keys |-> store[key]]

\* the blobs of package `name`: the objects under the prefix name/
BlobsOf(store, name) ==
    LET prefix == name \o <<"/">>
        keys == { key \in DOMAIN store :
                    /\ Len(key) >= Len(prefix)
                    /\ SubSeq(key, 1, Len(prefix)) = prefix }
    IN  [key \in keys |-> store[key]]

\* request i is received or takes a step
Acts(i) == i \notin DOMAIN reqs \/ reqs'[i] /= reqs[i]

\* C28: a step of a publish, get-package or yank request on one package
\* leaves the stored metadata record and every blob of each other package as
\* they are.
C28_OtherPackagesUntouched ==
    [][\A i \in DOMAIN reqs' : \A other \in TwoNames :
          (Acts(i) /\ reqs'[i].name /= other)
          => /\ RecordsOf(PACKAGES', other) = RecordsOf(PACKAGES, other)
             /\ BlobsOf(TARBALLS', other) = BlobsOf(TARBALLS, other)]_vars

\* C28 witness: both packages are stored with a blob each; a version of one
\* was yanked by an accepted request after the other was published, and the
\* other's version is not yanked.
C28_Witness ==
    /\ Has(PACKAGES, PkgKey(NameA)) /\ Has(PACKAGES, PkgKey(NameB))
    /\ BlobsOf(TARBALLS, NameA) /= <<>> /\ BlobsOf(TARBALLS, NameB) /= <<>>
    /\ \E i, j \in DOMAIN reqs :
          /\ IsPublish(i) /\ reqs[i].name = NameB /\ reqs[i].status = 201
          /\ IsYank(j) /\ reqs[j].name = NameA /\ reqs[j].status = 200 /\ i < j
    /\ StoredFlag(StoredVersions(NameA), V1_2_0, TRUE)
    /\ StoredFlag(StoredVersions(NameB), V1_2_0, FALSE)

\* the step in which publish request i writes the blob
PublishWritesBlob(i) ==
    /\ IsPublish(i) /\ reqs[i].pc = "blob"
    /\ reqs'[i].pc /= "blob"

\* C29: when a publish request writes the blob of (name, version), the
\* stored metadata record of the package already has the version record of
\* that version.
C29_ReserveBeforeBlob ==
    [][\A i \in DOMAIN reqs :
          PublishWritesBlob(i)
          => HasVersion(StoredVersions(reqs[i].name), reqs[i].version)]_vars

\* the blob under `key` is the blob of a version record of a stored package
BlobHasVersionRecord(key) ==
    \E pkg \in DOMAIN PACKAGES :
        \E m \in 1..Len(PACKAGES[pkg].versions) :
            TarballKey(PACKAGES[pkg].name, PACKAGES[pkg].versions[m].version) = key

\* C30: when no publish request is in progress, every blob in TARBALLS is
\* the blob of a version record in the stored metadata of its package.
C30_NoOrphanedBlob ==
    (\A i \in DOMAIN reqs : IsPublish(i) => Done(i))
    => \A key \in DOMAIN TARBALLS : BlobHasVersionRecord(key)

\* the step in which download request i gets the object from the bucket
DownloadGetsTarball(i) ==
    /\ IsDownload(i) /\ reqs[i].pc = "blob"
    /\ reqs'[i].pc /= "blob"

\* C31: a download request that found the version record stored and not
\* yanked, and then finds no blob under the key of (name, version), is
\* answered 404 without a tarball, and the step changes no store.
C31_MissingBlobIsNotFound ==
    [][\A i \in DOMAIN reqs :
          (DownloadGetsTarball(i)
             /\ ~Has(TARBALLS, TarballKey(reqs[i].name, reqs[i].version)))
          => /\ reqs'[i].pc = "done" /\ reqs'[i].status = 404
             /\ reqs'[i].result = None
             /\ Stores' = Stores]_vars

\* C31 witness: the version is stored and not yanked, its blob is missing,
\* and a download of it was answered 404.
C31_Witness ==
    \E i \in DOMAIN reqs :
        /\ IsDownload(i) /\ Done(i) /\ reqs[i].status = 404
        /\ StoredFlag(StoredVersions(reqs[i].name), reqs[i].version, FALSE)
        /\ ~Has(TARBALLS, TarballKey(reqs[i].name, reqs[i].version))

\* the number of version records of `version` in a versions list
CountVersion(versions, version) ==
    Cardinality({ k \in 1..Len(versions) : versions[k].version = version })

\* request j is the same publish as request i, sent again right after i
\* ended without a response for a failed write, and none of its own writes
\* failed
RetryOf(i, j) ==
    /\ j = i + 1 /\ IsPublish(i) /\ IsPublish(j)
    /\ SameTarget(i, j) /\ reqs[i].token = reqs[j].token
    /\ reqs[i].status = NoResponse /\ reqs[i].failed /= Nil
    /\ Done(j) /\ reqs[j].status /= NoResponse

\* C32: a publish sent again after a failed write of the first attempt is
\* answered 201; afterwards the version is recorded once, its blob is
\* stored, and the publisher has on its list the package that the publish
\* created.
C32_RetryIsSafe ==
    \A i, j \in DOMAIN reqs :
        RetryOf(i, j)
        => /\ reqs[j].status = 201
           /\ CountVersion(StoredVersions(reqs[j].name), reqs[j].version) = 1
           /\ Has(TARBALLS, TarballKey(reqs[j].name, reqs[j].version))
           /\ Includes(USERS[TOKENS[reqs[j].token]].packages, reqs[j].name)

\* the step in which yank request i puts the metadata record
YankCommits(i) ==
    /\ IsYank(i) /\ reqs[i].pc = "commit"
    /\ reqs'[i].pc /= "commit"

\* C33: no step changes the created_at of a stored package, and the stored
\* updated_at changes only in the step in which a publish or a yank/unyank
\* request puts the record, so that it stays the time of the most recent of
\* these.
C33_TimestampsFollowMutations ==
    [][\A name \in {NameA} :
          Has(PACKAGES, PkgKey(name))
          => /\ PACKAGES'[PkgKey(name)].created_at = PACKAGES[PkgKey(name)].created_at
             /\ \/ PACKAGES'[PkgKey(name)].updated_at = PACKAGES[PkgKey(name)].updated_at
                \/ \E i \in DOMAIN reqs :
                      /\ PublishCommits(i) \/ YankCommits(i)
                      /\ reqs[i].name = name]_vars

\* the last call in the log of SpecDb, made in this step
DbCalls(fn) ==
    /\ call /= None /\ call' /= call
    /\ call'[1].log[Len(call'[1].log)].fn = fn

LastDbCall == call'[1].log[Len(call'[1].log)]

\* C34: updatePackage sets every column that is present in updates to the
\* value given, in the row of the name given, and changes nothing else.
C34_UpdateChangesTheFieldsGiven ==
    [][DbCalls("updatePackage")
       => LET old == call[1].packages
              new == call'[1].packages
              in == LastDbCall
          IN  /\ DOMAIN new = DOMAIN old
              /\ \A n \in DOMAIN old : \A c \in DOMAIN old[n] :
                    new[n][c] = IF n = in.name /\ c \in DOMAIN in.updates
                                THEN in.updates[c] ELSE old[n][c]
              /\ call'[1].versions = call[1].versions]_vars

\* C34 amended: updatePackage sets every column among description, authors,
\* license, repository, homepage, keywords, downloads and updated_at that is
\* present in updates to the value given, in the row of the name given; name
\* and created_at in updates are ignored, and nothing else changes.
C34_UpdateChangesTheUpdatableFieldsGiven ==
    [][DbCalls("updatePackage")
       => LET old == call[1].packages
              new == call'[1].packages
              in == LastDbCall
              given == DOMAIN in.updates \ {"name", "created_at"}
          IN  /\ DOMAIN new = DOMAIN old
              /\ \A n \in DOMAIN old : \A c \in DOMAIN old[n] :
                    new[n][c] = IF n = in.name /\ c \in given
                                THEN in.updates[c] ELSE old[n][c]
              /\ call'[1].versions = call[1].versions]_vars

\* C34 witness: a call with description and keywords has changed these two
\* columns of package a and left its license and package b as they were.
C34_Witness ==
    /\ call /= None /\ "packages" \in DOMAIN call[1]
    /\ \E k \in 1..Len(call[1].log) :
          /\ call[1].log[k].fn = "updatePackage"
          /\ DOMAIN call[1].log[k].updates = {"description", "keywords"}
    /\ call[1].packages[NameA].description = Desc2
    /\ call[1].packages[NameA].keywords = <<"k">>
    /\ call[1].packages[NameA].license = DbPackages[NameA].license
    /\ call[1].packages[NameB] = DbPackages[NameB]

\* the createVersion calls in the log for (packageName, version) that
\* returned without an error
CreatedVersions(packageName, version) ==
    { k \in 1..Len(call[1].log) :
        /\ call[1].log[k].fn = "createVersion" /\ call[1].log[k].ok
        /\ call[1].log[k].name = packageName
        /\ call[1].log[k].version = version }

\* C35: of the createVersion calls made for one (package_name, version) at
\* most one has succeeded, and the versions table has no two rows with the
\* same (package_name, version).
C35_CreateVersionIsUnique ==
    (call /= None /\ "versions" \in DOMAIN call[1])
    => LET versions == call[1].versions
       IN  /\ \A i, j \in 1..Len(versions) :
                 (versions[i].package_name = versions[j].package_name
                    /\ versions[i].version = versions[j].version) => i = j
           /\ \A k \in 1..Len(call[1].log) :
                 call[1].log[k].fn = "createVersion"
                 => Cardinality(CreatedVersions(call[1].log[k].name,
                                                call[1].log[k].version)) <= 1

\* C35 witness: createVersion was called twice for a 1.2.0; the first call
\* succeeded, the second failed, and the table has the one row.
C35_Witness ==
    /\ call /= None /\ "versions" \in DOMAIN call[1]
    /\ \E i, j \in 1..Len(call[1].log) :
          /\ i < j
          /\ call[1].log[i].fn = "createVersion" /\ call[1].log[j].fn = "createVersion"
          /\ call[1].log[i].name = NameA /\ call[1].log[j].name = NameA
          /\ call[1].log[i].version = V1_2_0 /\ call[1].log[j].version = V1_2_0
          /\ call[1].log[i].ok /\ ~call[1].log[j].ok
    /\ Cardinality({ k \in 1..Len(call[1].versions) :
                       call[1].versions[k].version = V1_2_0
                       /\ call[1].versions[k].package_name = NameA }) = 1

\* the calls of fn in the log for the package `name`
DbCallsOf(fn, name) ==
    { k \in 1..Len(call[1].log) :
        call[1].log[k].fn = fn /\ call[1].log[k].name = name }

\* the createPackage calls in the log for `name` that returned without an
\* error
CreatedPackages(name) ==
    { k \in DbCallsOf("createPackage", name) : call[1].log[k].ok }

\* C36: a name has a row exactly when it had one at the start or a
\* createPackage call for it has succeeded, so no incrementDownloads call
\* adds a row; the downloads of a row that no updatePackage call has set is
\* its first value (0 for a row that createPackage added) plus the number of
\* incrementDownloads calls made for its name since the row exists.
C36_IncrementIsAtomic ==
    (call /= None /\ "packages" \in DOMAIN call[1])
    => \A name \in {NameA, NameB, NameC} :
          LET made == CreatedPackages(name)
              first == IF name \in DOMAIN DbPackages
                       THEN DbPackages[name].downloads ELSE 0
              counted == { k \in DbCallsOf("incrementDownloads", name) :
                             \A m \in made : m < k }
          IN  /\ name \in DOMAIN call[1].packages
                 <=> (name \in DOMAIN DbPackages \/ made /= {})
              /\ (/\ name \in DOMAIN call[1].packages
                  /\ \A k \in DbCallsOf("updatePackage", name) :
                        "downloads" \notin DOMAIN call[1].log[k].updates)
                 => call[1].packages[name].downloads = first + Cardinality(counted)

\* C36 witness: two incrementDownloads calls for a and one for c, which has
\* no row; the counter of a has grown by two and c has no row.
C36_Witness ==
    /\ call /= None /\ "packages" \in DOMAIN call[1]
    /\ Cardinality(DbCallsOf("incrementDownloads", NameA)) = 2
    /\ Cardinality(DbCallsOf("incrementDownloads", NameC)) = 1
    /\ call[1].packages[NameA].downloads = DbPackages[NameA].downloads + 2
    /\ NameC \notin DOMAIN call[1].packages

\* C37: the rows that getPackageVersions returns are in descending order
\* of major, minor and patch, compared as numbers.
C37_VersionsInSemverOrder ==
    (call /= None /\ "versions" \in DOMAIN call[1])
    => \A k \in DbCallsOf("getPackageVersions", NameA) :
          LET rows == call[1].log[k].ret
          IN  \A i, j \in 1..Len(rows) :
                  i < j => TripleSign(Triple(rows[i].version),
                                        Triple(rows[j].version)) >= 0

\* C38: every version record in the stored metadata of a package has a blob
\* stored under the key of its (name, version).
C38_EveryVersionHasItsBlob ==
    \A pkg \in DOMAIN PACKAGES :
        \A m \in 1..Len(PACKAGES[pkg].versions) :
            Has(TARBALLS, TarballKey(PACKAGES[pkg].name,
                                     PACKAGES[pkg].versions[m].version))

\* C38 witness: package a is stored with two version records, written back
\* by a get-package request that counted a download.
C38_Witness ==
    /\ Len(StoredVersions(NameA)) = 2
    /\ PACKAGES[PkgKey(NameA)].downloads > 0
    /\ Has(TARBALLS, TarballKey(NameA, V1_2_0))
    /\ Has(TARBALLS, TarballKey(NameA, V1_10_0))

\* C39: a user that has a package on its list keeps it there in every step.
C39_OwnershipIsKept ==
    [][\A u \in DOMAIN USERS : \A name \in TwoNames :
          Includes(USERS[u].packages, name)
          => Includes(USERS'[u].packages, name)]_vars

\* C40: no two register requests for the same email are both answered 201.
C40_OneUserPerEmail ==
    \A i, j \in DOMAIN reqs :
        (reqs[i].kind = "register" /\ reqs[j].kind = "register"
           /\ reqs[i].email = reqs[j].email
           /\ reqs[i].status = 201 /\ reqs[j].status = 201)
        => i = j

====
